---- MODULE Spec2Model ----
(***************************************************************************)
(* Cache-mapping visualizer (components/cache-visualizer.tsx) and the      *)
(* comparison page (components/cache-comparison.tsx).                      *)
(*                                                                         *)
(* The home page holds one CacheVisualizer component: its React state, the *)
(* form handler on the text of the address field, the processAddress       *)
(* handler with the timers it schedules, the delayed handleCacheHit /      *)
(* handleCacheMiss updates, resetCache and the configuration buttons.  The *)
(* comparison page holds two visualizers (left, right) driven through      *)
(* their refs by one form, each with its own configuration.  Toasts and    *)
(* DOM geometry (targetPosition) are presentation only and carry no state  *)
(* that any handler reads back.                                            *)
(*                                                                         *)
(* Operators whose arguments are used more than once bind them to their    *)
(* values first (CHOOSE over a one-element set), so that an argument is    *)
(* computed once wherever the operator is evaluated.                       *)
(***************************************************************************)
EXTENDS Integers, Sequences, FiniteSets, TLC

\* ------------------------------------------------------------------------
\* Program constants
\* ------------------------------------------------------------------------
CACHE_SIZE == 8
MAIN_MEMORY_SIZE == 32
SET_SIZE == 2
ADDRESS_BITS == 20
BLOCK_SIZE == 32
OFFSET_BITS == 5

\* JavaScript null for `address` and `tag` (valid addresses and tags are >= 0)
NULL == -1
\* the -1 that findIndex / findAddressInCache return when nothing matches
NotFound == -1

MAPPING_TYPES == {"direct", "fully-associative", "set-associative"}
REPLACEMENT_POLICIES == {"fifo", "lru", "lfu", "random"}

\* ------------------------------------------------------------------------
\* Bounds of the model
\* ------------------------------------------------------------------------
\* Date.now() is modelled by an integer clock; no handler runs once the
\* clock has reached MaxClock (each access reads the clock twice).
MaxClock == 20
\* accesses to an already seen address, per epoch (since the last reset)
MaxRepeat == 2
\* Math.random() is drawn from { u / RandomSteps : u \in 0..RandomSteps-1 }
RandomSteps == 8
\* the comparison page accepts addresses while the clock is below
\* MaxCompareClock
MaxCompareClock == 6
\* the specification of the address decomposition submits the addresses
\* 0..SampleLow and the addresses next to the field boundaries, at most
\* MaxSampleAccesses of them in a row
SampleLow == 9
MaxSampleAccesses == 2
\* the specification of the main-memory window submits at most
\* MaxWindowAccesses addresses
MaxWindowAccesses == 35
\* the specification of the two policies side by side submits at most
\* MaxPolicyAccesses addresses
MaxPolicyAccesses == 5
\* under the fairness specification both pages accept addresses while the
\* clock is below MaxLiveClock
MaxLiveClock == 6

\* ------------------------------------------------------------------------
\* JavaScript helpers
\* ------------------------------------------------------------------------
RECURSIVE Pow2(_)
Pow2(n) == IF n <= 0 THEN 1 ELSE 2 * Pow2(n - 1)

\* Math.log2 on the powers of two the program applies it to
RECURSIVE Log2(_)
Log2(n) == IF n <= 1 THEN 0 ELSE 1 + Log2(n \div 2)

\* a & b on non-negative integers
RECURSIVE BitAnd(_, _)
BitAnd(a, b) ==
    IF a = 0 \/ b = 0 THEN 0
    ELSE (IF a % 2 = 1 /\ b % 2 = 1 THEN 1 ELSE 0) + 2 * BitAnd(a \div 2, b \div 2)

\* a >> n on non-negative integers below 2^31
ShiftRight(a, n) == a \div Pow2(n)

\* arrays are functions on 0..length-1
ArrayLen(arr) == Cardinality(DOMAIN arr)

\* Array.prototype.findIndex, given the set of indices whose element
\* satisfies the callback: the first of them, or -1
findIndex(hits) ==
    IF hits = {} THEN NotFound
    ELSE CHOOSE i \in hits : \A j \in hits : i <= j

\* Array.prototype.slice(startIdx, endIdx)
slice(arr, startIdx, endIdx) ==
    LET e == IF endIdx > ArrayLen(arr) THEN ArrayLen(arr) ELSE endIdx
    IN  [i \in 0..(e - startIdx - 1) |-> arr[startIdx + i]]

\* arr[i] = v on a copy of arr (an index past the end grows the array);
\* the three arguments are bound to their values once
arraySet(arr, i, v) ==
    CHOOSE copy \in {[j \in (DOMAIN a) \cup {k} |-> IF j = k THEN w ELSE a[j]] :
                       a \in {arr}, k \in {i}, w \in {v}} : TRUE

\* ------------------------------------------------------------------------
\* Address decomposition
\* ------------------------------------------------------------------------
getIndexBits(mt) ==
    IF mt = "direct" THEN Log2(CACHE_SIZE)
    ELSE IF mt = "set-associative" THEN Log2(CACHE_SIZE \div SET_SIZE)
    ELSE 0

\* mutant of getAddressComponents: the index is taken from the block number
getAddressComponentsBlockIndex(mt, address) ==
    LET indexBits == getIndexBits(mt)
        offsetBits == OFFSET_BITS
    IN  [offset |-> BitAnd(address, Pow2(offsetBits) - 1),
         index  |-> IF mt = "direct" THEN (address \div BLOCK_SIZE) % 8
                    ELSE IF mt = "set-associative" THEN (address \div BLOCK_SIZE) % 4
                    ELSE 0,
         tag    |-> ShiftRight(address, indexBits + offsetBits)]

getAddressComponents(mt, address) ==
    LET indexBits == getIndexBits(mt)
        offsetBits == OFFSET_BITS
    IN  [offset |-> BitAnd(address, Pow2(offsetBits) - 1),
         index  |-> IF mt = "direct" THEN address % 8
                    ELSE IF mt = "set-associative" THEN address % 4
                    ELSE 0,
         tag    |-> ShiftRight(address, indexBits + offsetBits)]

\* ------------------------------------------------------------------------
\* Cache blocks
\* ------------------------------------------------------------------------
EmptyBlock == [address |-> NULL, timestamp |-> 0, frequency |-> 0, tag |-> NULL]

\* the arrays and records resetCache installs
EmptyCache == [i \in 0..(CACHE_SIZE - 1) |-> EmptyBlock]
EmptyMainMemory == [i \in 0..(MAIN_MEMORY_SIZE - 1) |-> NULL]
ZeroStats == [hits |-> 0, compulsoryMisses |-> 0, capacityMisses |-> 0]

\* ------------------------------------------------------------------------
\* Lookup
\* ------------------------------------------------------------------------
\* cache[i]?.address === address (an index past the end reads undefined)
holdsAddress(cache, i, address) ==
    i \in DOMAIN cache /\ cache[i].address = address

\* mutant of scanSet: only the first block of the set is compared
scanSetFirstOnly(cache, startIdx, address, i) ==
    IF holdsAddress(cache, startIdx, address) THEN startIdx ELSE NotFound

\* the scan of the SET_SIZE blocks of one set: first match, or -1
RECURSIVE scanSet(_, _, _, _)
scanSet(cache, startIdx, address, i) ==
    IF i >= SET_SIZE THEN NotFound
    ELSE IF holdsAddress(cache, startIdx + i, address) THEN startIdx + i
    ELSE scanSet(cache, startIdx, address, i + 1)

findAddressInCache(mt, cache, address) ==
    LET index == getAddressComponents(mt, address).index
    IN  IF mt = "direct"
        THEN (IF holdsAddress(cache, index, address) THEN index ELSE NotFound)
        ELSE IF mt = "fully-associative"
        THEN findIndex({i \in DOMAIN cache : cache[i].address = address})
        ELSE scanSet(cache, index * SET_SIZE, address, 0)

\* ------------------------------------------------------------------------
\* Victim selection
\* ------------------------------------------------------------------------
\* candidateBlocks.reduce((minIdx, block, idx, arr) =>
\*     (block.timestamp < arr[minIdx].timestamp ? idx : minIdx), 0)
RECURSIVE reduceMinTimestamp(_, _, _)
reduceMinTimestamp(arr, idx, minIdx) ==
    IF idx >= ArrayLen(arr) THEN minIdx
    ELSE CHOOSE result \in
           {reduceMinTimestamp(arr, nextIdx, nextMin) :
               nextIdx \in {idx + 1},
               nextMin \in {IF arr[idx].timestamp < arr[minIdx].timestamp
                            THEN idx ELSE minIdx}} : TRUE

\* mutant of reduceMinFrequency: <= keeps the last of equal frequencies
RECURSIVE reduceMinFrequencyLast(_, _, _)
reduceMinFrequencyLast(arr, idx, minIdx) ==
    IF idx >= ArrayLen(arr) THEN minIdx
    ELSE CHOOSE result \in
           {reduceMinFrequencyLast(arr, nextIdx, nextMin) :
               nextIdx \in {idx + 1},
               nextMin \in {IF arr[idx].frequency <= arr[minIdx].frequency
                            THEN idx ELSE minIdx}} : TRUE

\* the same reduce on block.frequency
RECURSIVE reduceMinFrequency(_, _, _)
reduceMinFrequency(arr, idx, minIdx) ==
    IF idx >= ArrayLen(arr) THEN minIdx
    ELSE CHOOSE result \in
           {reduceMinFrequency(arr, nextIdx, nextMin) :
               nextIdx \in {idx + 1},
               nextMin \in {IF arr[idx].frequency < arr[minIdx].frequency
                            THEN idx ELSE minIdx}} : TRUE

\* mutant of randomBelow: the range is taken one too wide
randomBelowInclusive(u, n) == (u * (n + 1)) \div RandomSteps

\* Math.floor(Math.random() * n) with Math.random() = u / RandomSteps
randomBelow(u, n) == (u * n) \div RandomSteps

\* mutant of findReplacementIndex: LRU looks for the lowest frequency
findReplacementIndexLruByFrequency(rp, cache, startIdx, endIdx, u) ==
    CHOOSE replaceIdx \in
      {LET emptyIndex == findIndex({i \in DOMAIN candidateBlocks : candidateBlocks[i].address = NULL})
       IN  IF emptyIndex # NotFound THEN startIdx + emptyIndex
           ELSE IF rp = "fifo" THEN startIdx + reduceMinTimestamp(candidateBlocks, 0, 0)
           ELSE IF rp = "lru" THEN startIdx + reduceMinFrequency(candidateBlocks, 0, 0)
           ELSE IF rp = "lfu" THEN startIdx + reduceMinFrequency(candidateBlocks, 0, 0)
           ELSE IF rp = "random" THEN startIdx + randomBelow(u, endIdx - startIdx)
           ELSE startIdx :
          candidateBlocks \in {slice(cache, startIdx, endIdx)}} : TRUE

\* findReplacementIndex(startIdx, endIdx); u is the draw of Math.random()
findReplacementIndex(rp, cache, startIdx, endIdx, u) ==
    CHOOSE replaceIdx \in
      {LET emptyIndex == findIndex({i \in DOMAIN candidateBlocks : candidateBlocks[i].address = NULL})
       IN  IF emptyIndex # NotFound THEN startIdx + emptyIndex
           ELSE IF rp = "fifo" THEN startIdx + reduceMinTimestamp(candidateBlocks, 0, 0)
           ELSE IF rp = "lru" THEN startIdx + reduceMinTimestamp(candidateBlocks, 0, 0)
           ELSE IF rp = "lfu" THEN startIdx + reduceMinFrequency(candidateBlocks, 0, 0)
           ELSE IF rp = "random" THEN startIdx + randomBelow(u, endIdx - startIdx)
           ELSE startIdx :
          candidateBlocks \in {slice(cache, startIdx, endIdx)}} : TRUE

\* mutant of findEmptyInSet: the loop runs from the last block of the set
RECURSIVE findEmptyInSetLast(_, _, _)
findEmptyInSetLast(cache, startIdx, i) ==
    IF i >= SET_SIZE THEN NotFound
    ELSE IF cache[startIdx + SET_SIZE - 1 - i].address = NULL
    THEN startIdx + SET_SIZE - 1 - i
    ELSE findEmptyInSetLast(cache, startIdx, i + 1)

\* the loop over the set that looks for an empty spot: first empty, or -1
RECURSIVE findEmptyInSet(_, _, _)
findEmptyInSet(cache, startIdx, i) ==
    IF i >= SET_SIZE THEN NotFound
    ELSE IF cache[startIdx + i].address = NULL THEN startIdx + i
    ELSE findEmptyInSet(cache, startIdx, i + 1)

\* mutant of missPlacement: the fully-associative branch leaves willReplace
\* at its initial false
missPlacementFullNoReplace(mt, rp, cache, index, u) ==
    IF mt = "direct"
    THEN [finalIndex |-> index, willReplace |-> cache[index].address # NULL]
    ELSE IF mt = "fully-associative"
    THEN [finalIndex |-> findReplacementIndex(rp, cache, 0, CACHE_SIZE, u),
          willReplace |-> FALSE]
    ELSE LET startIdx == index * SET_SIZE
             emptyIndex == findEmptyInSet(cache, startIdx, 0)
         IN  [finalIndex |-> IF emptyIndex # NotFound THEN emptyIndex
                             ELSE findReplacementIndex(rp, cache, startIdx,
                                                       startIdx + SET_SIZE, u),
              willReplace |-> emptyIndex = NotFound]

\* mutant of missPlacement: direct mapping places by the replacement policy
\* over the whole cache
missPlacementDirectByPolicy(mt, rp, cache, index, u) ==
    IF mt = "direct" \/ mt = "fully-associative"
    THEN [finalIndex |-> findReplacementIndex(rp, cache, 0, CACHE_SIZE, u),
          willReplace |-> \A i \in DOMAIN cache : cache[i].address # NULL]
    ELSE LET startIdx == index * SET_SIZE
             emptyIndex == findEmptyInSet(cache, startIdx, 0)
         IN  [finalIndex |-> IF emptyIndex # NotFound THEN emptyIndex
                             ELSE findReplacementIndex(rp, cache, startIdx,
                                                       startIdx + SET_SIZE, u),
              willReplace |-> emptyIndex = NotFound]

\* mutant of missPlacement: the direct branch is taken under FIFO only, any
\* other policy falls through to the fully-associative branch
missPlacementDirectOnlyFifo(mt, rp, cache, index, u) ==
    IF mt = "direct" /\ rp = "fifo"
    THEN [finalIndex |-> index, willReplace |-> cache[index].address # NULL]
    ELSE IF mt = "fully-associative" \/ mt = "direct"
    THEN [finalIndex |-> findReplacementIndex(rp, cache, 0, CACHE_SIZE, u),
          willReplace |-> \A i \in DOMAIN cache : cache[i].address # NULL]
    ELSE LET startIdx == index * SET_SIZE
             emptyIndex == findEmptyInSet(cache, startIdx, 0)
         IN  [finalIndex |-> IF emptyIndex # NotFound THEN emptyIndex
                             ELSE findReplacementIndex(rp, cache, startIdx,
                                                       startIdx + SET_SIZE, u),
              willReplace |-> emptyIndex = NotFound]

\* the block a missing address goes to, and whether the install replaces
\* (processAddress, "Check if all cache blocks are full ...")
missPlacement(mt, rp, cache, index, u) ==
    IF mt = "direct"
    THEN [finalIndex |-> index, willReplace |-> cache[index].address # NULL]
    ELSE IF mt = "fully-associative"
    THEN [finalIndex |-> findReplacementIndex(rp, cache, 0, CACHE_SIZE, u),
          willReplace |-> \A i \in DOMAIN cache : cache[i].address # NULL]
    ELSE LET startIdx == index * SET_SIZE
             emptyIndex == findEmptyInSet(cache, startIdx, 0)
         IN  [finalIndex |-> IF emptyIndex # NotFound THEN emptyIndex
                             ELSE findReplacementIndex(rp, cache, startIdx,
                                                       startIdx + SET_SIZE, u),
              willReplace |-> emptyIndex = NotFound]

\* mutant of addressFirstTime: the set is read after the address was added
addressFirstTimeAfterAdd(seen, address) == address \notin (seen \cup {address})

\* !addressesEverSeen.has(address), on the set of the current render
addressFirstTime(seen, address) == address \notin seen

\* mutant of classifyMiss: a replacing miss is always 'capacity'
classifyMissByReplaceOnly(isAddressFirstTime, willReplace) ==
    IF willReplace THEN "capacity" ELSE "compulsory"

\* mutant of classifyMiss: a first-time miss is always 'compulsory'
classifyMissFirstTimeCompulsory(isAddressFirstTime, willReplace) ==
    IF isAddressFirstTime THEN "compulsory"
    ELSE (IF willReplace THEN "capacity" ELSE "compulsory")

\* the miss type from the two flags
classifyMiss(isAddressFirstTime, willReplace) ==
    IF isAddressFirstTime
    THEN (IF willReplace THEN "both" ELSE "compulsory")
    ELSE (IF willReplace THEN "capacity" ELSE "compulsory")

\* ------------------------------------------------------------------------
\* Main-memory window
\* ------------------------------------------------------------------------
\* the address stored in the first free slot of the window, or pushed
storeInMainMemory(trimmed, address) ==
    CHOOSE stored \in
        {IF emptyIndex # NotFound
         THEN arraySet(trimmed, emptyIndex, address)
         ELSE arraySet(trimmed, ArrayLen(trimmed), address) :
            emptyIndex \in {findIndex({i \in DOMAIN trimmed : trimmed[i] = NULL})}} :
        TRUE

\* mutant of updateMainMemory: a full window gives up its first entry,
\* resident in the cache or not
updateMainMemoryFirstEntry(mainMem, cache, address) ==
    IF \E i \in DOMAIN mainMem : mainMem[i] = address THEN mainMem
    ELSE
      LET used == Cardinality({i \in DOMAIN mainMem : mainMem[i] # NULL})
          firstNonNullIndex == findIndex({i \in DOMAIN mainMem : mainMem[i] # NULL})
          trimmed ==
              IF used >= MAIN_MEMORY_SIZE /\ firstNonNullIndex # NotFound
              THEN arraySet(mainMem, firstNonNullIndex, NULL)
              ELSE mainMem
      IN  CHOOSE updated \in {storeInMainMemory(window, address) :
                                 window \in {trimmed}} : TRUE

\* processAddress, "Update main memory to include this address if it's not
\* already there": the window after the address was entered
updateMainMemory(mainMem, cache, address) ==
    IF \E i \in DOMAIN mainMem : mainMem[i] = address THEN mainMem
    ELSE
      LET used == Cardinality({i \in DOMAIN mainMem : mainMem[i] # NULL})
          inCache(addr) == \E b \in DOMAIN cache : cache[b].address = addr
          indexToRemove == findIndex({i \in DOMAIN mainMem : mainMem[i] # NULL /\ ~inCache(mainMem[i])})
          firstNonNullIndex == findIndex({i \in DOMAIN mainMem : mainMem[i] # NULL})
          trimmed ==
              IF used >= MAIN_MEMORY_SIZE
              THEN (IF indexToRemove # NotFound
                    THEN arraySet(mainMem, indexToRemove, NULL)
                    ELSE IF firstNonNullIndex # NotFound
                    THEN arraySet(mainMem, firstNonNullIndex, NULL)
                    ELSE mainMem)
              ELSE mainMem
      IN  CHOOSE updated \in {storeInMainMemory(window, address) :
                                 window \in {trimmed}} : TRUE

\* ------------------------------------------------------------------------
\* The delayed updates, as functions of the state they read
\* ------------------------------------------------------------------------
\* mutant of hitCache: the timestamp is not refreshed
hitCacheNoStamp(cache, cacheIndex, t) ==
    [cache EXCEPT ![cacheIndex] = [@ EXCEPT !.frequency = @ + 1]]

\* mutant of hitCache: the frequency is not incremented
hitCacheKeepsFrequency(cache, cacheIndex, t) ==
    [cache EXCEPT ![cacheIndex] = [@ EXCEPT !.timestamp = t]]

\* handleCacheHit: the new cache (timestamp refreshed, frequency + 1)
hitCache(cache, cacheIndex, t) ==
    [cache EXCEPT ![cacheIndex] =
        [@ EXCEPT !.timestamp = t, !.frequency = @ + 1]]

\* mutant of hitStats: the hit is counted twice
hitStatsTwice(prev) == [prev EXCEPT !.hits = @ + 2]

hitStats(prev) == [prev EXCEPT !.hits = @ + 1]

\* mutant of missCache: the tag keeps the index bits
missCacheOffsetTag(mt, cache, address, cacheIndex, t) ==
    arraySet(cache, cacheIndex,
             [address |-> address, timestamp |-> t, frequency |-> 1,
              tag |-> ShiftRight(address, OFFSET_BITS)])

\* mutant of missCache: the block is emptied and the address not written
missCacheEmpties(mt, cache, address, cacheIndex, t) ==
    arraySet(cache, cacheIndex,
             [address |-> NULL, timestamp |-> 0, frequency |-> 0, tag |-> NULL])

\* mutant of missCache: the install leaves the tag of the block as it was
missCacheKeepsTag(mt, cache, address, cacheIndex, t) ==
    arraySet(cache, cacheIndex,
             [address |-> address, timestamp |-> t, frequency |-> 1,
              tag |-> cache[cacheIndex].tag])

\* mutant of missCache: a replacing install is pushed after the last block
missCachePush(mt, cache, address, cacheIndex, t) ==
    arraySet(cache,
             IF cache[cacheIndex].address # NULL THEN ArrayLen(cache)
             ELSE cacheIndex,
             [address |-> address, timestamp |-> t, frequency |-> 1,
              tag |-> getAddressComponents(mt, address).tag])

\* mutant of missCache: the install leaves the timestamp of the block as it
\* was
missCacheKeepsStamp(mt, cache, address, cacheIndex, t) ==
    arraySet(cache, cacheIndex,
             [address |-> address, timestamp |-> cache[cacheIndex].timestamp,
              frequency |-> 1, tag |-> getAddressComponents(mt, address).tag])

\* handleCacheMiss: the new cache (the block is overwritten)
missCache(mt, cache, address, cacheIndex, t) ==
    arraySet(cache, cacheIndex,
             [address |-> address, timestamp |-> t, frequency |-> 1,
              tag |-> getAddressComponents(mt, address).tag])

\* mutant of missStats: 'both' is counted as a compulsory miss only
missStatsBothOnce(prev, missType) ==
    IF missType = "capacity"
    THEN [prev EXCEPT !.capacityMisses = @ + 1]
    ELSE [prev EXCEPT !.compulsoryMisses = @ + 1]

\* mutant of missStats: 'both' is counted as a capacity miss only
missStatsBothAsCapacity(prev, missType) ==
    IF missType = "compulsory"
    THEN [prev EXCEPT !.compulsoryMisses = @ + 1]
    ELSE [prev EXCEPT !.capacityMisses = @ + 1]

\* handleCacheMiss: the stats after a miss of the given type
missStats(prev, missType) ==
    IF missType = "compulsory"
    THEN [prev EXCEPT !.compulsoryMisses = @ + 1]
    ELSE IF missType = "capacity"
    THEN [prev EXCEPT !.capacityMisses = @ + 1]
    ELSE [prev EXCEPT !.compulsoryMisses = @ + 1, !.capacityMisses = @ + 1]

\* CacheStats: the total-accesses figure shown with the hit rate
totalAccesses(st) == st.hits + st.compulsoryMisses

\* ------------------------------------------------------------------------
\* Inputs
\* ------------------------------------------------------------------------
\* The k-th distinct address a user enters (k = 1, 2, ...).  Consecutive
\* triples share a set (a mod 4) and two of each triple share a direct-mapped
\* block (a mod 8); tags differ under every mapping type.
PoolAddr(k) == 260 * (k - 1) + ((k - 1) \div 3)

\* mutant of validAddress: the upper limit is 2^20 itself
validAddressUpToPow(address) == address >= 0 /\ address <= Pow2(ADDRESS_BITS)

\* what handleAddressSubmit accepts
validAddress(address) == address >= 0 /\ address <= Pow2(ADDRESS_BITS) - 1

\* The text of the address field is a sequence of characters.
Digits == <<"0", "1", "2", "3", "4", "5", "6", "7", "8", "9">>
isDigit(c) == \E d \in 1..10 : Digits[d] = c
digitValue(c) == (CHOOSE d \in 1..10 : Digits[d] = c) - 1

\* the decimal numeral a user types for a non-negative integer
RECURSIVE numeral(_)
numeral(n) ==
    IF n < 10 THEN <<Digits[n + 1]>>
    ELSE numeral(n \div 10) \o <<Digits[(n % 10) + 1]>>

\* the number of leading decimal digits of a text
RECURSIVE leadingDigits(_)
leadingDigits(text) ==
    IF text = <<>> \/ ~isDigit(Head(text)) THEN 0
    ELSE CHOOSE n \in {1 + leadingDigits(rest) : rest \in {Tail(text)}} : TRUE

\* the value of the first n characters of a text, all decimal digits
RECURSIVE digitsValue(_, _)
digitsValue(text, n) ==
    IF n = 0 THEN 0
    ELSE CHOOSE value \in {10 * digitsValue(text, m) + digitValue(text[n]) :
                             m \in {n - 1}} : TRUE

\* the longest run of decimal digits at the head of body, as a number with
\* the given sign; NaN when that run is empty
NaN == [isNaN |-> TRUE, value |-> 0]
parseDigits(body, negative) ==
    CHOOSE parsed \in
      {IF n = 0 THEN NaN
       ELSE [isNaN |-> FALSE,
             value |-> IF negative THEN 0 - digitsValue(body, n)
                       ELSE digitsValue(body, n)] :
          n \in {leadingDigits(body)}} : TRUE

\* Number.parseInt(text) on texts without white space and without a radix
\* prefix: an optional sign, then the longest run of decimal digits
parseInt(text) ==
    LET signed == text # <<>> /\ Head(text) \in {"-", "+"}
    IN  parseDigits(IF signed THEN Tail(text) ELSE text,
                    signed /\ Head(text) = "-")

\* texts handleAddressSubmit turns down: the empty field, a negative
\* number, a fraction without integer part, 2^20
RejectedInputs ==
    {<<>>, <<"-", "1">>, <<".", "5">>, <<"1", "0", "4", "8", "5", "7", "6">>}

\* ------------------------------------------------------------------------
\* State
\* ------------------------------------------------------------------------
VARIABLES
    mappingType,        \* useState(MAPPING_TYPES.DIRECT)
    replacementPolicy,  \* useState(REPLACEMENT_POLICIES.FIFO)
    cache,              \* array of CACHE_SIZE blocks
    mainMemory,         \* array of addresses / null
    stats,              \* {hits, compulsoryMisses, capacityMisses}
    history,            \* HistoryEntry[], most recent first
    addressesEverSeen,  \* Set<number>
    isAnimating,
    animatingAddress,
    animationType,      \* "hit" | "miss" | "null"
    targetCacheIndex,
    pc,                 \* which timers of the current access are still to fire
    pending,            \* <<>> or <<closure of the processAddress call>>
    now,                \* Date.now(): read once when an address is accepted
                        \* and once by its delayed update (1000 ms or more
                        \* later), and taken to advance between two readings
    touchLog,           \* history variable: the installs and hits applied
                        \* to cache blocks since the last reset, oldest first
    page,               \* the route of the session: "home" (app/page.tsx,
                        \* the visualizer above) or "compare"
                        \* (app/compare/page.tsx); following the link to the
                        \* other route mounts it in its initial state
    leftMappingType,        \* CacheComparison: useState(MAPPING_TYPES.DIRECT)
    rightMappingType,       \* useState(MAPPING_TYPES.FULLY_ASSOCIATIVE)
    leftReplacementPolicy,  \* useState(REPLACEMENT_POLICIES.FIFO)
    rightReplacementPolicy, \* useState(REPLACEMENT_POLICIES.LRU)
    comparisonIsAnimating,  \* CacheComparison's own isAnimating
    visualizers         \* the state of the two child visualizers of the
                        \* comparison, by side ("left", "right")

vars == <<mappingType, replacementPolicy, cache, mainMemory, stats, history,
          addressesEverSeen, isAnimating, animatingAddress, animationType,
          targetCacheIndex, pc, pending, now, touchLog, page,
          leftMappingType, rightMappingType, leftReplacementPolicy,
          rightReplacementPolicy, comparisonIsAnimating, visualizers>>

\* the state of the comparison page
comparison == <<leftMappingType, rightMappingType, leftReplacementPolicy,
                rightReplacementPolicy, comparisonIsAnimating, visualizers>>

config == <<mappingType, replacementPolicy>>
animation == <<animatingAddress, animationType, targetCacheIndex>>

Sides == {"left", "right"}

\* a child visualizer of the comparison after its mount effect
ChildInit ==
    [cache |-> EmptyCache, mainMemory |-> EmptyMainMemory, stats |-> ZeroStats,
     history |-> <<>>, addressesEverSeen |-> {}, isAnimating |-> FALSE,
     animatingAddress |-> NULL, animationType |-> "null",
     targetCacheIndex |-> NULL, pc |-> "idle", pending |-> <<>>]

\* the state after the mount effect has run resetCache
Init ==
    /\ mappingType = "direct"
    /\ replacementPolicy = "fifo"
    /\ cache = EmptyCache
    /\ mainMemory = EmptyMainMemory
    /\ stats = ZeroStats
    /\ history = <<>>
    /\ addressesEverSeen = {}
    /\ isAnimating = FALSE
    /\ animatingAddress = NULL
    /\ animationType = "null"
    /\ targetCacheIndex = NULL
    /\ pc = "idle"
    /\ pending = <<>>
    /\ now = 0
    /\ touchLog = <<>>
    /\ page \in {"home", "compare"}
    /\ leftMappingType = "direct"
    /\ rightMappingType = "fully-associative"
    /\ leftReplacementPolicy = "fifo"
    /\ rightReplacementPolicy = "lru"
    /\ comparisonIsAnimating = FALSE
    /\ visualizers = [s \in Sides |-> ChildInit]

\* ------------------------------------------------------------------------
\* resetCache and the configuration buttons
\* ------------------------------------------------------------------------
\* the React state of the visualizer, as one record
visualizerState ==
    [mappingType |-> mappingType, replacementPolicy |-> replacementPolicy,
     cache |-> cache, mainMemory |-> mainMemory, stats |-> stats,
     history |-> history, addressesEverSeen |-> addressesEverSeen,
     isAnimating |-> isAnimating, animatingAddress |-> animatingAddress,
     animationType |-> animationType, targetCacheIndex |-> targetCacheIndex]

\* mutant of resetCacheState: setAddressesEverSeen is not called
resetCacheStateKeepsSeen(st) ==
    [st EXCEPT !.cache = EmptyCache,
               !.mainMemory = EmptyMainMemory,
               !.stats = ZeroStats,
               !.history = <<>>]

\* mutant of resetCacheState: the history gives up its latest record only
resetCacheStateDropsLatest(st) ==
    [st EXCEPT !.cache = EmptyCache,
               !.mainMemory = EmptyMainMemory,
               !.stats = ZeroStats,
               !.history = IF @ = <<>> THEN <<>> ELSE Tail(@),
               !.addressesEverSeen = {}]

\* resetCache as a function of the state: the five setters it calls
resetCacheState(st) ==
    [st EXCEPT !.cache = EmptyCache,
               !.mainMemory = EmptyMainMemory,
               !.stats = ZeroStats,
               !.history = <<>>,
               !.addressesEverSeen = {}]

resetCache ==
    LET after == resetCacheState(visualizerState)
    IN  /\ cache' = after.cache
        /\ mainMemory' = after.mainMemory
        /\ stats' = after.stats
        /\ history' = after.history
        /\ addressesEverSeen' = after.addressesEverSeen
        /\ touchLog' = <<>>

\* the Reset button (disabled while isAnimating)
ResetButton ==
    /\ page = "home"
    /\ ~isAnimating
    /\ resetCache
    /\ UNCHANGED <<config, isAnimating, animation, pc, pending, now, page,
                   comparison>>

\* mutant of SetMappingType: the effect does not run
SetMappingTypeNoReset(mt) ==
    /\ page = "home"
    /\ ~isAnimating
    /\ mt # mappingType
    /\ mappingType' = mt
    /\ UNCHANGED <<replacementPolicy, cache, mainMemory, stats, history,
                   addressesEverSeen, touchLog, isAnimating, animation, pc,
                   pending, now, page, comparison>>

\* a mapping-type button (disabled while isAnimating); the effect on
\* [mappingType, replacementPolicy] runs resetCache when the value changed
SetMappingType(mt) ==
    /\ page = "home"
    /\ ~isAnimating
    /\ mt # mappingType
    /\ mappingType' = mt
    /\ resetCache
    /\ UNCHANGED <<replacementPolicy, isAnimating, animation, pc, pending, now,
                   page, comparison>>

\* a replacement-policy button (disabled under direct mapping and while
\* isAnimating)
SetReplacementPolicy(rp) ==
    /\ page = "home"
    /\ ~isAnimating
    /\ mappingType # "direct"
    /\ rp # replacementPolicy
    /\ replacementPolicy' = rp
    /\ resetCache
    /\ UNCHANGED <<mappingType, isAnimating, animation, pc, pending, now,
                   page, comparison>>

\* ------------------------------------------------------------------------
\* handleAddressSubmit / processAddress
\* ------------------------------------------------------------------------
\* the addresses the model submits: any address seen in this epoch (at most
\* MaxRepeat times per epoch), or the next address of the pool
repeats == Len(history) - Cardinality(addressesEverSeen)

Inputs ==
    (IF repeats < MaxRepeat THEN addressesEverSeen ELSE {})
        \cup {PoolAddr(Cardinality(addressesEverSeen) + 1)}

\* does a miss on this index draw Math.random()?
drawsRandom(mt, rp, cch, index) ==
    /\ rp = "random"
    /\ \/ mt = "fully-associative" /\ \A i \in DOMAIN cch : cch[i].address # NULL
       \/ mt = "set-associative"
            /\ \A i \in 0..(SET_SIZE - 1) : cch[index * SET_SIZE + i].address # NULL

Draws(mt, rp, cch, index) ==
    IF drawsRandom(mt, rp, cch, index) THEN 0..(RandomSteps - 1) ELSE {0}

\* mutant of historyEntry: every miss is recorded as 'compulsory'
historyEntryCompulsory(address, comp, result, missType, t) ==
    [address |-> address, tag |-> comp.tag, index |-> comp.index,
     offset |-> comp.offset, result |-> result,
     missType |-> IF result = "miss" THEN "compulsory" ELSE missType,
     timestamp |-> t]

historyEntry(address, comp, result, missType, t) ==
    [address |-> address, tag |-> comp.tag, index |-> comp.index,
     offset |-> comp.offset, result |-> result, missType |-> missType,
     timestamp |-> t]

processAddress(address, u) ==
    \E cacheIndex \in {findAddressInCache(mappingType, cache, address)},
       comp \in {getAddressComponents(mappingType, address)} :
    \E place \in {missPlacement(mappingType, replacementPolicy, cache, comp.index, u)} :
    LET isAddressFirstTime == addressFirstTime(addressesEverSeen, address)
        missType == classifyMiss(isAddressFirstTime, place.willReplace)
    IN  /\ isAnimating' = TRUE
        /\ mainMemory' = updateMainMemory(mainMemory, cache, address)
        /\ animatingAddress' = address
        /\ now' = now + 1
        /\ pc' = "submitted"
        /\ IF cacheIndex # NotFound
           THEN /\ animationType' = "hit"
                /\ targetCacheIndex' = cacheIndex
                /\ history' = <<historyEntry(address, comp, "hit", "none", now')>> \o history
                /\ pending' = <<[address |-> address, cacheIndex |-> cacheIndex,
                                 index |-> comp.index, missType |-> "none",
                                 finalIndex |-> NotFound, cache |-> cache]>>
                /\ UNCHANGED addressesEverSeen
           ELSE /\ animationType' = "miss"
                /\ targetCacheIndex' = place.finalIndex
                /\ history' = <<historyEntry(address, comp, "miss", missType, now')>> \o history
                /\ addressesEverSeen' = addressesEverSeen \cup {address}
                /\ pending' = <<[address |-> address, cacheIndex |-> NotFound,
                                 index |-> comp.index, missType |-> missType,
                                 finalIndex |-> place.finalIndex, cache |-> cache]>>
        /\ UNCHANGED <<config, cache, stats, touchLog, page, comparison>>

\* the form's submit handler on the text of the address field
handleAddressSubmit(addressInput) ==
    /\ page = "home"
    /\ ~isAnimating
    /\ \E address \in {parseInt(addressInput)} :
          IF address.isNaN \/ ~validAddress(address.value)
          THEN UNCHANGED vars
          ELSE \E u \in Draws(mappingType, replacementPolicy, cache,
                     getAddressComponents(mappingType, address.value).index) :
                   processAddress(address.value, u)

\* the user types the numeral of an address and submits it
SubmitAddress(address) ==
    /\ now + 2 <= MaxClock
    /\ handleAddressSubmit(numeral(address))

\* the user submits a text that is no address
SubmitRejected(addressInput) == handleAddressSubmit(addressInput)

\* ------------------------------------------------------------------------
\* The timers of one access
\* ------------------------------------------------------------------------
\* 100 ms: the animation target is computed again, from the closure's cache
targetIndex(mt, rp, job, u) ==
    IF job.cacheIndex # NotFound THEN job.cacheIndex
    ELSE IF mt = "direct" THEN job.index
    ELSE IF mt = "fully-associative"
    THEN findReplacementIndex(rp, job.cache, 0, CACHE_SIZE, u)
    ELSE LET startIdx == job.index * SET_SIZE
             emptyIndex == findEmptyInSet(job.cache, startIdx, 0)
         IN  IF emptyIndex # NotFound THEN emptyIndex
             ELSE findReplacementIndex(rp, job.cache, startIdx, startIdx + SET_SIZE, u)

\* mutant of TargetTimer: the 100 ms timer already clears isAnimating
TargetTimerUnlocks ==
    /\ pc = "submitted"
    /\ LET job == pending[1]
       IN  \E u \in (IF job.cacheIndex # NotFound THEN {0}
                     ELSE Draws(mappingType, replacementPolicy, job.cache, job.index)) :
             targetCacheIndex' = targetIndex(mappingType, replacementPolicy, job, u)
    /\ pc' = "targeted"
    /\ isAnimating' = FALSE
    /\ UNCHANGED <<config, cache, mainMemory, stats, history, addressesEverSeen,
                   animatingAddress, animationType, pending, now,
                   touchLog, page, comparison>>

TargetTimer ==
    /\ pc = "submitted"
    /\ LET job == pending[1]
       IN  \E u \in (IF job.cacheIndex # NotFound THEN {0}
                     ELSE Draws(mappingType, replacementPolicy, job.cache, job.index)) :
             targetCacheIndex' = targetIndex(mappingType, replacementPolicy, job, u)
    /\ pc' = "targeted"
    /\ UNCHANGED <<config, cache, mainMemory, stats, history, addressesEverSeen,
                   isAnimating, animatingAddress, animationType, pending, now,
                   touchLog, page, comparison>>

\* 1000 ms after a hit
handleCacheHit ==
    /\ pc = "targeted"
    /\ pending[1].cacheIndex # NotFound
    /\ LET job == pending[1]
       IN  /\ now' = now + 1
           /\ stats' = hitStats(stats)
           /\ cache' = hitCache(job.cache, job.cacheIndex, now')
           /\ touchLog' = Append(touchLog, [block |-> job.cacheIndex, kind |-> "hit"])
    /\ pc' = "updated"
    /\ UNCHANGED <<config, mainMemory, history, addressesEverSeen, isAnimating,
                   animation, pending, page, comparison>>

\* 1500 ms after a miss
handleCacheMiss ==
    /\ pc = "targeted"
    /\ pending[1].cacheIndex = NotFound
    /\ LET job == pending[1]
       IN  /\ now' = now + 1
           /\ stats' = missStats(stats, job.missType)
           /\ cache' = missCache(mappingType, job.cache, job.address, job.finalIndex, now')
           /\ touchLog' = Append(touchLog, [block |-> job.finalIndex, kind |-> "install"])
    /\ pc' = "updated"
    /\ UNCHANGED <<config, mainMemory, history, addressesEverSeen, isAnimating,
                   animation, pending, page, comparison>>

\* 500 ms after the update: the animation is cleared
\* mutant of ClearTimer: setIsAnimating(false) is left out
ClearTimerKeepsLock ==
    /\ pc = "updated"
    /\ animatingAddress' = NULL
    /\ animationType' = "null"
    /\ targetCacheIndex' = NULL
    /\ pc' = "idle"
    /\ pending' = <<>>
    /\ UNCHANGED <<config, cache, mainMemory, stats, history, addressesEverSeen,
                   isAnimating, now, touchLog, page, comparison>>

ClearTimer ==
    /\ pc = "updated"
    /\ animatingAddress' = NULL
    /\ animationType' = "null"
    /\ targetCacheIndex' = NULL
    /\ isAnimating' = FALSE
    /\ pc' = "idle"
    /\ pending' = <<>>
    /\ UNCHANGED <<config, cache, mainMemory, stats, history, addressesEverSeen,
                   now, touchLog, page, comparison>>

\* ------------------------------------------------------------------------
\* The comparison page: CacheComparison and its two child visualizers
\* ------------------------------------------------------------------------
\* standalone visualizer state, untouched by the comparison page
standalone == <<mappingType, replacementPolicy, cache, mainMemory, stats,
                history, addressesEverSeen, isAnimating, animatingAddress,
                animationType, targetCacheIndex, pc, pending, touchLog>>

sideMappingType(s) == IF s = "left" THEN leftMappingType ELSE rightMappingType
sideReplacementPolicy(s) ==
    IF s = "left" THEN leftReplacementPolicy ELSE rightReplacementPolicy

\* the child's processAddress, on the child's state v, at clock reading t
childProcessAddress(mt, rp, v, address, u, t) ==
    LET comp == getAddressComponents(mt, address)
        isAddressFirstTime == addressFirstTime(v.addressesEverSeen, address)
    IN  CHOOSE next \in
          {LET missType == classifyMiss(isAddressFirstTime, place.willReplace)
               hit == cacheIndex # NotFound
           IN  [v EXCEPT
                  !.isAnimating = TRUE,
                  !.mainMemory = updateMainMemory(v.mainMemory, v.cache, address),
                  !.animatingAddress = address,
                  !.animationType = IF hit THEN "hit" ELSE "miss",
                  !.targetCacheIndex = IF hit THEN cacheIndex ELSE place.finalIndex,
                  !.history =
                      <<historyEntry(address, comp, IF hit THEN "hit" ELSE "miss",
                                     IF hit THEN "none" ELSE missType, t)>> \o @,
                  !.addressesEverSeen = IF hit THEN @ ELSE @ \cup {address},
                  !.pending =
                      <<[address |-> address, cacheIndex |-> cacheIndex,
                         index |-> comp.index,
                         missType |-> IF hit THEN "none" ELSE missType,
                         finalIndex |-> IF hit THEN NotFound ELSE place.finalIndex,
                         cache |-> v.cache]>>,
                  !.pc = "submitted"] :
              cacheIndex \in {findAddressInCache(mt, v.cache, address)},
              place \in {missPlacement(mt, rp, v.cache, comp.index, u)}} : TRUE

\* the child's timers, on the child's state
childTargetTimer(mt, rp, v, u) ==
    [v EXCEPT !.targetCacheIndex = targetIndex(mt, rp, v.pending[1], u),
              !.pc = "targeted"]

childCacheHit(v, t) ==
    [v EXCEPT !.stats = hitStats(@),
              !.cache = hitCache(v.pending[1].cache, v.pending[1].cacheIndex, t),
              !.pc = "updated"]

childCacheMiss(mt, v, t) ==
    [v EXCEPT !.stats = missStats(@, v.pending[1].missType),
              !.cache = missCache(mt, v.pending[1].cache, v.pending[1].address,
                                  v.pending[1].finalIndex, t),
              !.pc = "updated"]

childClear(v) ==
    [v EXCEPT !.animatingAddress = NULL, !.animationType = "null",
              !.targetCacheIndex = NULL, !.isAnimating = FALSE,
              !.pc = "idle", !.pending = <<>>]

\* Timers fire in the order of their deadlines, and in the order of their
\* creation when the deadlines are equal.  The deadline of a child's next
\* timer, in ms after the submit (2500, the parent's timer, when it has none):
timerDue(v) ==
    IF v.pc = "idle" THEN 2500
    ELSE IF v.pc = "submitted" THEN 100
    ELSE LET hit == v.pending[1].cacheIndex # NotFound
         IN  IF v.pc = "targeted" THEN (IF hit THEN 1000 ELSE 1500)
             ELSE (IF hit THEN 1500 ELSE 2000)

\* deadline first; then an update (created at the submit) before a clear
\* (created by an update); then the left child (called first)
timerRank(s) ==
    4 * timerDue(visualizers[s])
      + (IF visualizers[s].pc = "updated" THEN 2 ELSE 0)
      + (IF s = "right" THEN 1 ELSE 0)

firesNext(s) ==
    /\ page = "compare"
    /\ visualizers[s].pc # "idle"
    /\ \A o \in Sides \ {s} : timerRank(s) < timerRank(o)

\* the 100 ms timer of a child
ChildTargetTimer(s) ==
    /\ firesNext(s)
    /\ visualizers[s].pc = "submitted"
    /\ LET v == visualizers[s]
           job == v.pending[1]
           mt == sideMappingType(s)
           rp == sideReplacementPolicy(s)
       IN  \E u \in (IF job.cacheIndex # NotFound THEN {0}
                     ELSE Draws(mt, rp, job.cache, job.index)) :
             visualizers' = [visualizers EXCEPT ![s] = childTargetTimer(mt, rp, v, u)]
    /\ UNCHANGED <<standalone, now, page, leftMappingType, rightMappingType,
                   leftReplacementPolicy, rightReplacementPolicy,
                   comparisonIsAnimating>>

\* the 1000 ms timer of a child whose access was a hit
ChildCacheHit(s) ==
    /\ firesNext(s)
    /\ visualizers[s].pc = "targeted"
    /\ visualizers[s].pending[1].cacheIndex # NotFound
    /\ now' = visualizers[s].history[1].timestamp + 1
    /\ visualizers' = [visualizers EXCEPT ![s] = childCacheHit(@, now')]
    /\ UNCHANGED <<standalone, page, leftMappingType, rightMappingType,
                   leftReplacementPolicy, rightReplacementPolicy,
                   comparisonIsAnimating>>

\* the 1500 ms timer of a child whose access was a miss
ChildCacheMiss(s) ==
    /\ firesNext(s)
    /\ visualizers[s].pc = "targeted"
    /\ visualizers[s].pending[1].cacheIndex = NotFound
    /\ now' = visualizers[s].history[1].timestamp + 1
    /\ visualizers' =
          [visualizers EXCEPT ![s] = childCacheMiss(sideMappingType(s), @, now')]
    /\ UNCHANGED <<standalone, page, leftMappingType, rightMappingType,
                   leftReplacementPolicy, rightReplacementPolicy,
                   comparisonIsAnimating>>

\* 500 ms after a child's update
ChildClearTimer(s) ==
    /\ firesNext(s)
    /\ visualizers[s].pc = "updated"
    /\ visualizers' = [visualizers EXCEPT ![s] = childClear(@)]
    /\ UNCHANGED <<standalone, now, page, leftMappingType, rightMappingType,
                   leftReplacementPolicy, rightReplacementPolicy,
                   comparisonIsAnimating>>

\* 2500 ms after the submit: the parent's flag is cleared
ComparisonTimer ==
    /\ page = "compare"
    /\ comparisonIsAnimating
    /\ \A s \in Sides : visualizers[s].pc = "idle"
    /\ comparisonIsAnimating' = FALSE
    /\ UNCHANGED <<standalone, now, page, leftMappingType, rightMappingType,
                   leftReplacementPolicy, rightReplacementPolicy, visualizers>>

\* CacheComparison's submit handler: the same validation, then both
\* children's processAddress through their refs
comparisonHandleAddressSubmit(addressInput) ==
    /\ page = "compare"
    /\ ~comparisonIsAnimating
    /\ \E address \in {parseInt(addressInput)} :
           IF address.isNaN \/ ~validAddress(address.value)
           THEN UNCHANGED vars
           ELSE /\ comparisonIsAnimating' = TRUE
                /\ now' = now + 1
                /\ LET draws(s) ==
                           Draws(sideMappingType(s), sideReplacementPolicy(s),
                                 visualizers[s].cache,
                                 getAddressComponents(sideMappingType(s),
                                                      address.value).index)
                   IN  \E uLeft \in draws("left"), uRight \in draws("right") :
                         visualizers' =
                           [s \in Sides |->
                              childProcessAddress(sideMappingType(s),
                                                  sideReplacementPolicy(s),
                                                  visualizers[s], address.value,
                                                  IF s = "left" THEN uLeft ELSE uRight,
                                                  now')]
                /\ UNCHANGED <<standalone, page, leftMappingType,
                               rightMappingType, leftReplacementPolicy,
                               rightReplacementPolicy>>

\* CacheComparison's resetCache: both children's resetCache
comparisonResetCache ==
    /\ page = "compare"
    /\ ~comparisonIsAnimating
    /\ visualizers' = [s \in Sides |-> resetCacheState(visualizers[s])]
    /\ UNCHANGED <<standalone, now, page, leftMappingType, rightMappingType,
                   leftReplacementPolicy, rightReplacementPolicy,
                   comparisonIsAnimating>>

\* the configuration buttons of a side; the child's effect on
\* [mappingType, replacementPolicy] runs its resetCache
SetLeftMappingType(mt) ==
    /\ page = "compare"
    /\ ~comparisonIsAnimating
    /\ mt # leftMappingType
    /\ leftMappingType' = mt
    /\ visualizers' = [visualizers EXCEPT !["left"] = resetCacheState(@)]
    /\ UNCHANGED <<standalone, now, page, rightMappingType,
                   leftReplacementPolicy, rightReplacementPolicy,
                   comparisonIsAnimating>>

\* mutant of SetRightMappingType: the reset reaches the left child as well
SetRightMappingTypeResetsBoth(mt) ==
    /\ page = "compare"
    /\ ~comparisonIsAnimating
    /\ mt # rightMappingType
    /\ rightMappingType' = mt
    /\ visualizers' = [s \in Sides |-> resetCacheState(visualizers[s])]
    /\ UNCHANGED <<standalone, now, page, leftMappingType,
                   leftReplacementPolicy, rightReplacementPolicy,
                   comparisonIsAnimating>>

SetRightMappingType(mt) ==
    /\ page = "compare"
    /\ ~comparisonIsAnimating
    /\ mt # rightMappingType
    /\ rightMappingType' = mt
    /\ visualizers' = [visualizers EXCEPT !["right"] = resetCacheState(@)]
    /\ UNCHANGED <<standalone, now, page, leftMappingType,
                   leftReplacementPolicy, rightReplacementPolicy,
                   comparisonIsAnimating>>

SetLeftReplacementPolicy(rp) ==
    /\ page = "compare"
    /\ ~comparisonIsAnimating
    /\ leftMappingType # "direct"
    /\ rp # leftReplacementPolicy
    /\ leftReplacementPolicy' = rp
    /\ visualizers' = [visualizers EXCEPT !["left"] = resetCacheState(@)]
    /\ UNCHANGED <<standalone, now, page, leftMappingType, rightMappingType,
                   rightReplacementPolicy, comparisonIsAnimating>>

SetRightReplacementPolicy(rp) ==
    /\ page = "compare"
    /\ ~comparisonIsAnimating
    /\ rightMappingType # "direct"
    /\ rp # rightReplacementPolicy
    /\ rightReplacementPolicy' = rp
    /\ visualizers' = [visualizers EXCEPT !["right"] = resetCacheState(@)]
    /\ UNCHANGED <<standalone, now, page, leftMappingType, rightMappingType,
                   leftReplacementPolicy, comparisonIsAnimating>>

\* the addresses the model submits on the comparison page: as Inputs, on
\* the addresses either child has seen
comparisonSeen ==
    visualizers["left"].addressesEverSeen \cup visualizers["right"].addressesEverSeen

comparisonRepeats(s) ==
    Len(visualizers[s].history) - Cardinality(visualizers[s].addressesEverSeen)

ComparisonInputs ==
    (IF \A s \in Sides : comparisonRepeats(s) < MaxRepeat
     THEN comparisonSeen ELSE {})
        \cup {PoolAddr(Cardinality(comparisonSeen) + 1)}

ComparisonSubmitAddress(address) ==
    /\ now + 2 <= MaxCompareClock
    /\ comparisonHandleAddressSubmit(numeral(address))

ComparisonSubmitRejected(addressInput) ==
    comparisonHandleAddressSubmit(addressInput)

Next ==
    \/ \E address \in Inputs : SubmitAddress(address)
    \/ \E addressInput \in RejectedInputs : SubmitRejected(addressInput)
    \/ TargetTimer
    \/ handleCacheHit
    \/ handleCacheMiss
    \/ ClearTimer
    \/ ResetButton
    \/ \E mt \in MAPPING_TYPES : SetMappingType(mt)
    \/ \E rp \in REPLACEMENT_POLICIES : SetReplacementPolicy(rp)
    \/ \E address \in ComparisonInputs : ComparisonSubmitAddress(address)
    \/ \E addressInput \in RejectedInputs : ComparisonSubmitRejected(addressInput)
    \/ \E s \in Sides : ChildTargetTimer(s)
    \/ \E s \in Sides : ChildCacheHit(s)
    \/ \E s \in Sides : ChildCacheMiss(s)
    \/ \E s \in Sides : ChildClearTimer(s)
    \/ ComparisonTimer
    \/ comparisonResetCache
    \/ \E mt \in MAPPING_TYPES : SetLeftMappingType(mt)
    \/ \E mt \in MAPPING_TYPES : SetRightMappingType(mt)
    \/ \E rp \in REPLACEMENT_POLICIES : SetLeftReplacementPolicy(rp)
    \/ \E rp \in REPLACEMENT_POLICIES : SetRightReplacementPolicy(rp)

Spec == Init /\ [][Next]_vars

\* ------------------------------------------------------------------------
\* The address decomposition on addresses across the field boundaries: a
\* visualizer of the home page, blank under any mapping type, is given up to
\* MaxSampleAccesses of the sample addresses; processAddress records the
\* components of each in history.
\* ------------------------------------------------------------------------
\* the bit positions at which offset, set index, block index and the address
\* itself end
SampleExponents == {2, 3, OFFSET_BITS, 7, 8, 12, ADDRESS_BITS}

SampleAddresses ==
    (0..SampleLow)
       \cup {Pow2(e) - 1 : e \in SampleExponents}
       \cup {Pow2(e) : e \in SampleExponents \ {ADDRESS_BITS}}

InitComponents ==
    /\ mappingType \in MAPPING_TYPES
    /\ replacementPolicy = "fifo"
    /\ cache = EmptyCache
    /\ mainMemory = EmptyMainMemory
    /\ stats = ZeroStats
    /\ history = <<>>
    /\ addressesEverSeen = {}
    /\ isAnimating = FALSE
    /\ animatingAddress = NULL
    /\ animationType = "null"
    /\ targetCacheIndex = NULL
    /\ pc = "idle"
    /\ pending = <<>>
    /\ now = 0
    /\ touchLog = <<>>
    /\ page = "home"
    /\ leftMappingType = "direct"
    /\ rightMappingType = "fully-associative"
    /\ leftReplacementPolicy = "fifo"
    /\ rightReplacementPolicy = "lru"
    /\ comparisonIsAnimating = FALSE
    /\ visualizers = [s \in Sides |-> ChildInit]

SubmitSample(address) ==
    /\ Len(history) < MaxSampleAccesses
    /\ handleAddressSubmit(numeral(address))

NextComponents ==
    \/ \E address \in SampleAddresses : SubmitSample(address)
    \/ TargetTimer
    \/ handleCacheHit
    \/ handleCacheMiss
    \/ ClearTimer

SpecComponents == InitComponents /\ [][NextComponents]_vars

\* ------------------------------------------------------------------------
\* The main-memory window when it is full: a visualizer of the home page,
\* blank under any mapping type and any deterministic replacement policy, is
\* given MAIN_MEMORY_SIZE distinct addresses one after the other, and then
\* further new addresses or the two addresses entered first, up to
\* MaxWindowAccesses accesses in all.
\* ------------------------------------------------------------------------
\* the k-th distinct address entered: 0, then the positive integers that are
\* no multiples of CACHE_SIZE (1..7, 9..15, 17, ...), so that under direct
\* mapping address 0 stays in block 0
WindowAddr(k) ==
    IF k = 1 THEN 0 ELSE (k - 1) + ((k - 2) \div (CACHE_SIZE - 1))

WindowInputs ==
    IF Len(history) < MAIN_MEMORY_SIZE
    THEN {WindowAddr(Len(history) + 1)}
    ELSE {WindowAddr(Cardinality(addressesEverSeen) + 1),
          WindowAddr(1), WindowAddr(2)}

InitWindow ==
    /\ mappingType \in MAPPING_TYPES
    /\ replacementPolicy \in {"fifo", "lru", "lfu"}
    /\ cache = EmptyCache
    /\ mainMemory = EmptyMainMemory
    /\ stats = ZeroStats
    /\ history = <<>>
    /\ addressesEverSeen = {}
    /\ isAnimating = FALSE
    /\ animatingAddress = NULL
    /\ animationType = "null"
    /\ targetCacheIndex = NULL
    /\ pc = "idle"
    /\ pending = <<>>
    /\ now = 0
    /\ touchLog = <<>>
    /\ page = "home"
    /\ leftMappingType = "direct"
    /\ rightMappingType = "fully-associative"
    /\ leftReplacementPolicy = "fifo"
    /\ rightReplacementPolicy = "lru"
    /\ comparisonIsAnimating = FALSE
    /\ visualizers = [s \in Sides |-> ChildInit]

SubmitWindow(address) ==
    /\ Len(history) < MaxWindowAccesses
    /\ handleAddressSubmit(numeral(address))

NextWindow ==
    \/ \E address \in WindowInputs : SubmitWindow(address)
    \/ TargetTimer
    \/ handleCacheHit
    \/ handleCacheMiss
    \/ ClearTimer

SpecWindow == InitWindow /\ [][NextWindow]_vars

\* ------------------------------------------------------------------------
\* FIFO next to LRU: the comparison page with its default policies (left
\* FIFO, right LRU) and any mapping type on either side is given up to
\* MaxPolicyAccesses addresses.
\* ------------------------------------------------------------------------
InitPolicies ==
    /\ mappingType = "direct"
    /\ replacementPolicy = "fifo"
    /\ cache = EmptyCache
    /\ mainMemory = EmptyMainMemory
    /\ stats = ZeroStats
    /\ history = <<>>
    /\ addressesEverSeen = {}
    /\ isAnimating = FALSE
    /\ animatingAddress = NULL
    /\ animationType = "null"
    /\ targetCacheIndex = NULL
    /\ pc = "idle"
    /\ pending = <<>>
    /\ now = 0
    /\ touchLog = <<>>
    /\ page = "compare"
    /\ leftMappingType \in MAPPING_TYPES
    /\ rightMappingType \in MAPPING_TYPES
    /\ leftReplacementPolicy = "fifo"
    /\ rightReplacementPolicy = "lru"
    /\ comparisonIsAnimating = FALSE
    /\ visualizers = [s \in Sides |-> ChildInit]

SubmitPolicies(address) ==
    /\ Len(visualizers["left"].history) < MaxPolicyAccesses
    /\ comparisonHandleAddressSubmit(numeral(address))

NextPolicies ==
    \/ \E address \in ComparisonInputs : SubmitPolicies(address)
    \/ \E s \in Sides : ChildTargetTimer(s)
    \/ \E s \in Sides : ChildCacheHit(s)
    \/ \E s \in Sides : ChildCacheMiss(s)
    \/ \E s \in Sides : ChildClearTimer(s)
    \/ ComparisonTimer

SpecPolicies == InitPolicies /\ [][NextPolicies]_vars

\* ------------------------------------------------------------------------
\* Timers that fire: the program of Spec, accepting addresses while the clock
\* is below MaxLiveClock, where every timer that was scheduled (setTimeout)
\* fires eventually.  Submits, resets and configuration changes are the
\* user's and carry no fairness.
\* ------------------------------------------------------------------------
SubmitLive(address) ==
    /\ now + 2 <= MaxLiveClock
    /\ handleAddressSubmit(numeral(address))

ComparisonSubmitLive(address) ==
    /\ now + 2 <= MaxLiveClock
    /\ comparisonHandleAddressSubmit(numeral(address))

NextLive ==
    \/ \E address \in Inputs : SubmitLive(address)
    \/ \E addressInput \in RejectedInputs : SubmitRejected(addressInput)
    \/ TargetTimer
    \/ handleCacheHit
    \/ handleCacheMiss
    \/ ClearTimer
    \/ ResetButton
    \/ \E mt \in MAPPING_TYPES : SetMappingType(mt)
    \/ \E rp \in REPLACEMENT_POLICIES : SetReplacementPolicy(rp)
    \/ \E address \in ComparisonInputs : ComparisonSubmitLive(address)
    \/ \E addressInput \in RejectedInputs : ComparisonSubmitRejected(addressInput)
    \/ \E s \in Sides : ChildTargetTimer(s)
    \/ \E s \in Sides : ChildCacheHit(s)
    \/ \E s \in Sides : ChildCacheMiss(s)
    \/ \E s \in Sides : ChildClearTimer(s)
    \/ ComparisonTimer
    \/ comparisonResetCache
    \/ \E mt \in MAPPING_TYPES : SetLeftMappingType(mt)
    \/ \E mt \in MAPPING_TYPES : SetRightMappingType(mt)
    \/ \E rp \in REPLACEMENT_POLICIES : SetLeftReplacementPolicy(rp)
    \/ \E rp \in REPLACEMENT_POLICIES : SetRightReplacementPolicy(rp)

TimersFire ==
    /\ WF_vars(TargetTimer)
    /\ WF_vars(handleCacheHit)
    /\ WF_vars(handleCacheMiss)
    /\ WF_vars(ClearTimer)
    /\ \A s \in Sides :
          /\ WF_vars(ChildTargetTimer(s))
          /\ WF_vars(ChildCacheHit(s))
          /\ WF_vars(ChildCacheMiss(s))
          /\ WF_vars(ChildClearTimer(s))
    /\ WF_vars(ComparisonTimer)

SpecLive == Init /\ [][NextLive]_vars /\ TimersFire

\* ========================================================================
\* Properties
\* ========================================================================
\* the access at the head of history has been classified and its delayed
\* update has not run yet: cache is still the cache it was classified on
Classified == pc \in {"submitted", "targeted"}

\* the step that accepts an address / the step that applies a delayed update
AcceptStep == pc = "idle" /\ pc' = "submitted"
MissUpdateStep == pc = "targeted" /\ pc' = "updated" /\ pending[1].cacheIndex = NotFound
HitUpdateStep == pc = "targeted" /\ pc' = "updated" /\ pending[1].cacheIndex # NotFound

\* the blocks an address may occupy, from the mapping rules
Candidates(mt, address) ==
    IF mt = "direct" THEN {address % 8}
    ELSE IF mt = "set-associative" THEN {2 * (address % 4), 2 * (address % 4) + 1}
    ELSE 0..7

Resident(address) == \E i \in DOMAIN cache : cache[i].address = address

AllOccupied(blocks) == \A i \in blocks : cache[i].address # NULL

\* history[i] is the first access of its address since the last reset
FirstAccessAt(i) ==
    \A j \in (i + 1)..Len(history) : history[j].address # history[i].address

\* readings of the touch log
LastOf(S) == IF S = {} THEN 0 ELSE CHOOSE p \in S : \A q \in S : q <= p
lastInstall(i) ==
    LastOf({p \in 1..Len(touchLog) :
              touchLog[p].block = i /\ touchLog[p].kind = "install"})
lastTouch(i) == LastOf({p \in 1..Len(touchLog) : touchLog[p].block = i})
hitsSinceInstall(i) ==
    Cardinality({p \in 1..Len(touchLog) :
                   p > lastInstall(i) /\ touchLog[p].block = i /\ touchLog[p].kind = "hit"})

\* ------------------------------------------------------------------------
\* C1: an accepted address is recorded as a hit exactly when some cache
\* block holds it at the moment it is accepted: a resident address is never
\* a miss, a non-resident address never a hit (all mapping types).
C1_HitIffResident ==
    [][AcceptStep =>
         LET rec == Head(history')
         IN  (rec.result = "hit") <=> Resident(rec.address)]_vars

\* a hit found in the second block of a set, and a miss of an address that
\* is resident nowhere, have both been classified
C1_Witness ==
    /\ Classified
    /\ mappingType = "set-associative"
    /\ Head(history).result = "hit"
    /\ pending[1].cacheIndex % 2 = 1
    /\ \E i \in 1..Len(history) : history[i].result = "miss"

\* ------------------------------------------------------------------------
\* C2: the first access of an address since the last reset is a miss of
\* type compulsory or both, never capacity alone.
C2_FirstAccessCompulsory ==
    \A i \in 1..Len(history) :
        FirstAccessAt(i) =>
            /\ history[i].result = "miss"
            /\ history[i].missType \in {"compulsory", "both"}

\* a first access that had to replace under a replacement policy
C2_Witness ==
    /\ mappingType = "fully-associative"
    /\ \E i \in 1..Len(history) : FirstAccessAt(i) /\ history[i].missType = "both"
    /\ \E i \in 1..Len(history) : FirstAccessAt(i) /\ history[i].missType = "compulsory"

\* ------------------------------------------------------------------------
\* C3: the miss type is the table on (isAddressFirstTime, willReplace), and
\* the stats update applies exactly that type; a miss never changes hits.
C3_MissTable(first, replace) ==
    IF first /\ ~replace THEN "compulsory"
    ELSE IF first /\ replace THEN "both"
    ELSE IF ~first /\ replace THEN "capacity"
    ELSE "compulsory"

C3_MissTypeAndStats ==
    [][/\ (AcceptStep /\ Head(history').result = "miss") =>
            Head(history').missType =
                C3_MissTable(Head(history').address \notin addressesEverSeen,
                             cache[pending'[1].finalIndex].address # NULL)
       /\ MissUpdateStep =>
            LET mt == Head(history).missType
                dComp == stats'.compulsoryMisses - stats.compulsoryMisses
                dCap == stats'.capacityMisses - stats.capacityMisses
            IN  /\ stats'.hits = stats.hits
                /\ mt = "compulsory" => dComp = 1 /\ dCap = 0
                /\ mt = "capacity" => dComp = 0 /\ dCap = 1
                /\ mt = "both" => dComp = 1 /\ dCap = 1
                /\ mt \in {"compulsory", "capacity", "both"}]_vars

\* misses of all three types have been applied to the stats
C3_Witness ==
    /\ pc = "updated"
    /\ Head(history).missType = "capacity"
    /\ \E i \in 1..Len(history) : history[i].missType = "both"
    /\ \E i \in 1..Len(history) : history[i].missType = "compulsory"
    /\ stats.capacityMisses = 2
    /\ stats.compulsoryMisses >= 2

\* ------------------------------------------------------------------------
\* C4: direct mapping: a miss of a never-seen address a whose block a mod 8
\* holds another address is 'both', adds one to both miss counters, and
\* leaves block a mod 8 holding a with a's tag.
C4_DirectConflict ==
    [][(/\ MissUpdateStep
        /\ mappingType = "direct"
        /\ FirstAccessAt(1)
        /\ cache[Head(history).address % 8].address # NULL) =>
          LET a == Head(history).address
          IN  /\ Head(history).missType = "both"
              /\ stats'.compulsoryMisses = stats.compulsoryMisses + 1
              /\ stats'.capacityMisses = stats.capacityMisses + 1
              /\ cache'[a % 8].address = a
              /\ cache'[a % 8].tag = a \div 256
              /\ \A i \in DOMAIN cache : cache[i].address # a]_vars

\* such a conflict miss has been installed, with a non-zero tag
C4_Witness ==
    /\ pc = "updated"
    /\ mappingType = "direct"
    /\ FirstAccessAt(1)
    /\ Head(history).missType = "both"
    /\ cache[Head(history).address % 8].address = Head(history).address
    /\ cache[Head(history).address % 8].tag > 0
    /\ stats.capacityMisses = 1

\* ------------------------------------------------------------------------
\* C5 (as stated): fully associative, FIFO: with every block occupied, the
\* miss of a never-seen address is classified 'capacity'.
C5_FullFifoFreshIsCapacity ==
    (/\ Classified
     /\ mappingType = "fully-associative"
     /\ replacementPolicy = "fifo"
     /\ Head(history).result = "miss"
     /\ FirstAccessAt(1)
     /\ AllOccupied(0..7)) =>
        Head(history).missType = "capacity"

\* C5 (amended): under the same conditions the miss is classified 'both'.
C5_FullFifoFreshIsBoth ==
    (/\ Classified
     /\ mappingType = "fully-associative"
     /\ replacementPolicy = "fifo"
     /\ Head(history).result = "miss"
     /\ FirstAccessAt(1)
     /\ AllOccupied(0..7)) =>
        Head(history).missType = "both"

\* eight compulsory misses have filled the cache and a ninth address misses
C5_Witness ==
    /\ Classified
    /\ mappingType = "fully-associative"
    /\ replacementPolicy = "fifo"
    /\ Head(history).result = "miss"
    /\ FirstAccessAt(1)
    /\ AllOccupied(0..7)
    /\ \A i \in 2..Len(history) : history[i].missType = "compulsory"
    /\ Len(history) = 9

\* ------------------------------------------------------------------------
\* C6: FIFO: with all candidate blocks occupied, the victim is the candidate
\* installed earliest, whatever hits it has received since.
C6_FifoEvictsEarliestInstalled ==
    (/\ Classified
     /\ replacementPolicy = "fifo"
     /\ Head(history).result = "miss"
     /\ AllOccupied(Candidates(mappingType, Head(history).address))) =>
        \A i \in Candidates(mappingType, Head(history).address) :
            lastInstall(pending[1].finalIndex) <= lastInstall(i)

\* ------------------------------------------------------------------------
\* C7: LRU: with all candidate blocks occupied, the victim is the candidate
\* whose latest touch (install or hit) is the oldest.
C7_LruEvictsLeastRecentlyTouched ==
    (/\ Classified
     /\ replacementPolicy = "lru"
     /\ Head(history).result = "miss"
     /\ AllOccupied(Candidates(mappingType, Head(history).address))) =>
        /\ pending[1].finalIndex \in Candidates(mappingType, Head(history).address)
        /\ \A i \in Candidates(mappingType, Head(history).address) :
              lastTouch(pending[1].finalIndex) <= lastTouch(i)

\* a full fully-associative cache whose first-installed block was hit since:
\* the victim is not block 0
C7_Witness ==
    /\ Classified
    /\ replacementPolicy = "lru"
    /\ mappingType = "fully-associative"
    /\ Head(history).result = "miss"
    /\ AllOccupied(0..7)
    /\ hitsSinceInstall(0) > 0
    /\ pending[1].finalIndex = 1

\* ------------------------------------------------------------------------
\* C8: LFU: with all candidate blocks occupied, the victim has the smallest
\* frequency (1 at install, +1 per hit since), and the lowest index among
\* the candidates of that frequency.
C8_LfuEvictsLeastFrequentLowestIndex ==
    (/\ Classified
     /\ replacementPolicy = "lfu"
     /\ Head(history).result = "miss"
     /\ AllOccupied(Candidates(mappingType, Head(history).address))) =>
        LET cand == Candidates(mappingType, Head(history).address)
            v == pending[1].finalIndex
        IN  /\ v \in cand
            /\ \A i \in cand : hitsSinceInstall(v) <= hitsSinceInstall(i)
            /\ \A i \in cand : hitsSinceInstall(i) = hitsSinceInstall(v) => v <= i
            /\ \A i \in cand : cache[i].frequency = 1 + hitsSinceInstall(i)

\* a tie at the smallest frequency above a block that was hit
C8_Witness ==
    /\ Classified
    /\ replacementPolicy = "lfu"
    /\ mappingType = "fully-associative"
    /\ Head(history).result = "miss"
    /\ AllOccupied(0..7)
    /\ hitsSinceInstall(0) = 1
    /\ hitsSinceInstall(1) = 0
    /\ hitsSinceInstall(2) = 0
    /\ pending[1].finalIndex = 1

\* ------------------------------------------------------------------------
\* C9: Random: with all candidate blocks occupied, the install writes a
\* block of the candidate range and changes no block outside it.
C9_RandomStaysInRange ==
    [][(/\ MissUpdateStep
        /\ replacementPolicy = "random"
        /\ mappingType # "direct"
        /\ AllOccupied(Candidates(mappingType, Head(history).address))) =>
          LET a == Head(history).address
              cand == Candidates(mappingType, a)
          IN  /\ DOMAIN cache' = DOMAIN cache
              /\ \E i \in cand : cache'[i].address = a /\ cache[i].address # a
              /\ \A i \in DOMAIN cache' : i \notin cand => cache'[i] = cache[i]]_vars

\* a random victim other than the first block of a full set has been replaced
C9_Witness ==
    /\ pc = "updated"
    /\ replacementPolicy = "random"
    /\ mappingType = "set-associative"
    /\ Head(history).missType = "both"
    /\ pending[1].finalIndex % 2 = 1
    /\ cache[pending[1].finalIndex].address = Head(history).address
    /\ pending[1].cache[pending[1].finalIndex].address # NULL

childAddresses(v) == [i \in 1..Len(v.history) |-> v.history[i].address]
childOutcomes(v) ==
    [i \in 1..Len(v.history) |-> <<v.history[i].result, v.history[i].missType>>]
\* the blocks without their timestamps (each child reads the clock itself)
childContents(v) ==
    [i \in DOMAIN v.cache |->
        <<v.cache[i].address, v.cache[i].tag, v.cache[i].frequency>>]
childUpdated(v) == v.pc \in {"idle", "updated"}

\* C11: two direct-mapped visualizers that were given the same addresses
\* since their last reset, whatever their replacement policies, recorded the
\* same hit / miss / miss-type outcomes and, once the update of the latest
\* access is applied on both, hold the same blocks and the same stats.
C11_DirectPolicyNoOp ==
    LET l == visualizers["left"]
        r == visualizers["right"]
    IN  (/\ leftMappingType = "direct"
         /\ rightMappingType = "direct"
         /\ childAddresses(l) = childAddresses(r))
        => /\ childOutcomes(l) = childOutcomes(r)
           /\ (childUpdated(l) /\ childUpdated(r))
                => (childContents(l) = childContents(r) /\ l.stats = r.stats)

\* both sides direct, FIFO against Random, three accesses, the last of which
\* replaced a block on both sides
C11_Witness ==
    LET l == visualizers["left"]
        r == visualizers["right"]
    IN  /\ leftMappingType = "direct" /\ rightMappingType = "direct"
        /\ leftReplacementPolicy = "fifo" /\ rightReplacementPolicy = "random"
        /\ Len(l.history) = 3 /\ childAddresses(l) = childAddresses(r)
        /\ l.pc = "idle" /\ r.pc = "idle"
        /\ l.history[1].missType = "both" /\ r.stats.capacityMisses = 1

\* C12: a resident address a sits at block (a / BLOCK_SIZE) % CACHE_SIZE
\* under direct mapping and in set (a / BLOCK_SIZE) % (CACHE_SIZE / SET_SIZE)
\* under set-associative mapping (integer division), so the addresses of
\* one 32-byte block share their location.
C12_BlockNumberPlacement ==
    \A i \in DOMAIN cache :
        cache[i].address # NULL =>
            /\ mappingType = "direct" =>
                  i = (cache[i].address \div BLOCK_SIZE) % CACHE_SIZE
            /\ mappingType = "set-associative" =>
                  i \div SET_SIZE =
                      (cache[i].address \div BLOCK_SIZE) % (CACHE_SIZE \div SET_SIZE)

\* C13: the update of a hit adds exactly 1 to the frequency of the block
\* that holds the address, keeps that block's address and tag, and leaves
\* every other block as it was; the block's frequency is then 1 + the number
\* of hits applied to it since its install.
C13_HitBumpsFrequency ==
    [][HitUpdateStep =>
         LET i == pending[1].cacheIndex
         IN  /\ cache[i].address = pending[1].address
             /\ cache'[i].frequency = cache[i].frequency + 1
             /\ cache'[i].address = cache[i].address
             /\ cache'[i].tag = cache[i].tag
             /\ \A j \in DOMAIN cache \ {i} : cache'[j] = cache[j]
             /\ DOMAIN cache' = DOMAIN cache
             /\ cache'[i].frequency = 1 + hitsSinceInstall(i)'
      ]_vars

\* the hit right after the first install: hits = 1 and frequency = 2
C13_Witness ==
    /\ pc = "updated"
    /\ Len(history) = 2
    /\ history[1].result = "hit"
    /\ stats.hits = 1
    /\ \E i \in DOMAIN cache :
          cache[i].address = history[1].address /\ cache[i].frequency = 2

\* the number of history records classified 'both'
bothMisses(h) == Cardinality({i \in 1..Len(h) : h[i].missType = "both"})

\* C14: when no access is pending, the number of accesses accepted since the
\* last reset is hits + compulsoryMisses + capacityMisses minus the number
\* of 'both' misses, in the standalone visualizer and in each child of the
\* comparison.
C14_AccessesCounted ==
    /\ ~Classified =>
          Len(history) = stats.hits + stats.compulsoryMisses
                           + stats.capacityMisses - bothMisses(history)
    /\ \A s \in Sides :
          LET v == visualizers[s]
          IN  childUpdated(v) =>
                 Len(v.history) = v.stats.hits + v.stats.compulsoryMisses
                                    + v.stats.capacityMisses - bothMisses(v.history)

\* a hit, a 'both' miss and a 'capacity' miss have all been counted
C14_Witness ==
    /\ ~Classified
    /\ stats.hits > 0
    /\ bothMisses(history) > 0
    /\ \E i \in 1..Len(history) : history[i].missType = "capacity"

\* C15: when no access is pending, CacheStats' total-accesses figure
\* hits + compulsoryMisses is the number of addresses processed since the
\* last reset.
C15_TotalAccessesIsCount ==
    ~Classified => totalAccesses(stats) = Len(history)

\* the installs since the last reset that overwrote an occupied block:
\* blocks are emptied by resets only, so every install beyond the first one
\* of a block is a replacement
replacements ==
    Cardinality({p \in 1..Len(touchLog) : touchLog[p].kind = "install"})
      - Cardinality({i \in DOMAIN cache : cache[i].address # NULL})

\* C16: the update of a miss adds 1 to capacityMisses exactly when the block
\* it installs into was occupied, whatever the address's past; the update of
\* a hit leaves capacityMisses alone; and after each update capacityMisses is
\* the number of replacements since the last reset.
C16_CapacityCountsReplacements ==
    [][/\ MissUpdateStep =>
            /\ stats'.capacityMisses =
                  stats.capacityMisses
                    + (IF cache[pending[1].finalIndex].address # NULL THEN 1 ELSE 0)
            /\ stats'.capacityMisses = replacements'
       /\ HitUpdateStep =>
            /\ stats'.capacityMisses = stats.capacityMisses
            /\ stats'.capacityMisses = replacements'
      ]_vars

\* a replacement by a new address and one by an address seen before
C16_Witness ==
    /\ pc = "updated"
    /\ history[1].missType = "capacity"
    /\ stats.capacityMisses = 2
    /\ bothMisses(history) = 1

\* a visualizer state as resetCache leaves it
BlankVisualizer(st) ==
    /\ DOMAIN st.cache = 0..(CACHE_SIZE - 1)
    /\ \A i \in DOMAIN st.cache :
          st.cache[i] = [address |-> NULL, tag |-> NULL,
                         timestamp |-> 0, frequency |-> 0]
    /\ st.stats = [hits |-> 0, compulsoryMisses |-> 0, capacityMisses |-> 0]
    /\ st.history = <<>>
    /\ st.addressesEverSeen = {}
    /\ \A i \in DOMAIN st.mainMemory : st.mainMemory[i] = NULL

\* C17: after resetCache (the Reset button of either page) all 8 blocks are
\* empty with timestamp 0 and frequency 0, the stats are zero, and history,
\* addressesEverSeen and the main-memory window are empty.
C17_ResetClears ==
    [][/\ ResetButton => BlankVisualizer(visualizerState')
       /\ comparisonResetCache =>
             \A s \in Sides : BlankVisualizer(visualizers'[s])
      ]_vars

\* the default configuration, blank again after two or more accesses
C17_Witness ==
    /\ page = "home"
    /\ mappingType = "direct"
    /\ now >= 4
    /\ BlankVisualizer(visualizerState)

\* C18: resetCache is idempotent: on the state of every visualizer,
\* resetting twice gives the state that resetting once gives.
C18_ResetIdempotent ==
    /\ resetCacheState(resetCacheState(visualizerState))
          = resetCacheState(visualizerState)
    /\ \A s \in Sides :
          resetCacheState(resetCacheState(visualizers[s]))
             = resetCacheState(visualizers[s])

\* a state with two or more accesses in which Reset can be pressed
C18_Witness ==
    /\ page = "home"
    /\ ~isAnimating
    /\ Len(history) >= 2
    /\ stats.hits > 0
    /\ resetCacheState(visualizerState) # visualizerState

\* C19: a step that changes the mapping type or the replacement policy of
\* a visualizer leaves that visualizer blank.
C19_ConfigChangeResets ==
    [][/\ (mappingType' # mappingType \/ replacementPolicy' # replacementPolicy)
            => BlankVisualizer(visualizerState')
       /\ (leftMappingType' # leftMappingType
             \/ leftReplacementPolicy' # leftReplacementPolicy)
            => BlankVisualizer(visualizers'["left"])
       /\ (rightMappingType' # rightMappingType
             \/ rightReplacementPolicy' # rightReplacementPolicy)
            => BlankVisualizer(visualizers'["right"])
      ]_vars

\* set-associative LFU, blank after two or more accesses
C19_Witness ==
    /\ page = "home"
    /\ mappingType = "set-associative"
    /\ replacementPolicy = "lfu"
    /\ now >= 4
    /\ BlankVisualizer(visualizerState)

\* texts of integers in 0..1048575: both ends of the range and one between
AcceptedSamples ==
    {<<"0">>, <<"2", "6", "0">>, <<"1", "0", "4", "8", "5", "7", "5">>}

\* what a rejected input must leave alone
memory == <<cache, stats, history, addressesEverSeen, mainMemory, visualizers>>

countedAccesses(st, h) ==
    st.hits + st.compulsoryMisses + st.capacityMisses - bothMisses(h)

\* a child whose latest access has been recorded and not applied yet
childClassified(v) == v.pc \in {"submitted", "targeted"}

occupied(cch) == {i \in DOMAIN cch : cch[i].address # NULL}

\* C22: in every state the cache of every visualizer is an array of exactly
\* CACHE_SIZE = 8 blocks, indexed 0..7, of which at most 8 are occupied.
C22_CacheSizeFixed ==
    /\ DOMAIN cache = 0..(CACHE_SIZE - 1)
    /\ Cardinality(occupied(cache)) <= CACHE_SIZE
    /\ \A s \in Sides :
          /\ DOMAIN visualizers[s].cache = 0..(CACHE_SIZE - 1)
          /\ Cardinality(occupied(visualizers[s].cache)) <= CACHE_SIZE

\* a full cache into which a further address has been installed
C22_Witness ==
    /\ pc = "updated"
    /\ Cardinality(occupied(cache)) = CACHE_SIZE
    /\ stats.capacityMisses >= 1
    /\ Len(history) >= 9

\* ------------------------------------------------------------------------
\* what a child visualizer remembers of its accesses
childMemory(v) == <<v.cache, v.stats, v.history, v.addressesEverSeen>>

otherSide(s) == IF s = "left" THEN "right" ELSE "left"

\* the child's state is the one its own processAddress makes of its own
\* state, on the address it recorded, at the clock reading of the step
childAccessed(s) ==
    /\ visualizers'[s].history # <<>>
    /\ \E u \in 0..(RandomSteps - 1) :
          visualizers'[s] =
              childProcessAddress(sideMappingType(s), sideReplacementPolicy(s),
                                  visualizers[s],
                                  visualizers'[s].history[1].address, u, now')

\* C23: on the comparison page a step that changes the mapping type or the
\* replacement policy of one side leaves the other side's configuration,
\* cache, stats, history and addressesEverSeen as they were; a timer of one
\* child changes that child only; and a step that changes both children (a
\* submitted address, the Reset button) gives each child the state that its
\* own processAddress, or its own resetCache, makes of its own state.
C23_SidesShareNoState ==
    [][\A s \in Sides :
         LET o == otherSide(s)
         IN  /\ (sideMappingType(s)' # sideMappingType(s)
                   \/ sideReplacementPolicy(s)' # sideReplacementPolicy(s))
                => /\ visualizers'[o] = visualizers[o]
                   /\ sideMappingType(o)' = sideMappingType(o)
                   /\ sideReplacementPolicy(o)' = sideReplacementPolicy(o)
             /\ (visualizers[s].pc # "idle" /\ visualizers'[s].pc # visualizers[s].pc)
                => visualizers'[o] = visualizers[o]
             /\ (childMemory(visualizers'[s]) # childMemory(visualizers[s])
                   /\ childMemory(visualizers'[o]) # childMemory(visualizers[o]))
                => \/ childAccessed(s)
                   \/ visualizers'[s] = resetCacheState(visualizers[s])
      ]_vars

\* the right side was reconfigured after two accesses: it is blank, and the
\* left side still holds both accesses
C23_Witness ==
    /\ page = "compare"
    /\ rightMappingType = "set-associative"
    /\ visualizers["right"].history = <<>>
    /\ occupied(visualizers["right"].cache) = {}
    /\ Len(visualizers["left"].history) = 2
    /\ Cardinality(occupied(visualizers["left"].cache)) = 2
    /\ visualizers["left"].stats.compulsoryMisses = 2

\* ------------------------------------------------------------------------
\* the install of address a, into the cache before, with the stats before,
\* took the lowest-indexed empty candidate, evicted nothing and counted no
\* capacity miss
installedInFirstEmpty(mt, a, before, after, statsBefore, statsAfter) ==
    LET empties == {i \in Candidates(mt, a) : before[i].address = NULL}
        first == CHOOSE i \in empties : \A j \in empties : i <= j
    IN  empties # {} =>
          /\ after[first].address = a
          /\ \A i \in DOMAIN before : i # first => after[i] = before[i]
          /\ \A i \in occupied(before) :
                \E j \in occupied(after) : after[j].address = before[i].address
          /\ statsAfter.capacityMisses = statsBefore.capacityMisses

\* C24: the update of a miss under fully-associative or set-associative
\* mapping, when a candidate block of the address is empty, installs the
\* address in the lowest-indexed empty candidate, keeps every resident
\* address and leaves capacityMisses as it was (standalone visualizer and
\* both children of the comparison).
C24_EmptyCandidateFirst ==
    [][/\ (MissUpdateStep /\ mappingType # "direct") =>
            installedInFirstEmpty(mappingType, pending[1].address,
                                  cache, cache', stats, stats')
       /\ \A s \in Sides :
            LET v == visualizers[s]
            IN  (/\ v.pc = "targeted" /\ visualizers'[s].pc = "updated"
                 /\ v.pending[1].cacheIndex = NotFound
                 /\ sideMappingType(s) # "direct") =>
                   installedInFirstEmpty(sideMappingType(s), v.pending[1].address,
                                         v.cache, visualizers'[s].cache,
                                         v.stats, visualizers'[s].stats)
      ]_vars

\* set-associative: the address went to the second block of its set, whose
\* first block was taken, and nothing was counted as a capacity miss
C24_Witness ==
    /\ pc = "updated"
    /\ mappingType = "set-associative"
    /\ history[1].result = "miss"
    /\ cache[2 * (history[1].address % 4) + 1].address = history[1].address
    /\ cache[2 * (history[1].address % 4)].address # NULL
    /\ stats.capacityMisses = 0

\* ------------------------------------------------------------------------
\* the components of address a under mapping type mt, in numbers
componentsOf(mt, a) ==
    [offset |-> a % 32,
     index  |-> IF mt = "direct" THEN a % 8
                ELSE IF mt = "set-associative" THEN a % 4 ELSE 0,
     tag    |-> IF mt = "direct" THEN a \div 256
                ELSE IF mt = "set-associative" THEN a \div 128 ELSE a \div 32]

tagsConsistent(mt, cch) ==
    \A i \in DOMAIN cch :
        /\ cch[i].address = NULL <=> cch[i].tag = NULL
        /\ cch[i].address # NULL =>
              cch[i].tag = componentsOf(mt, cch[i].address).tag

\* C26: in every state, each block of every visualizer has a null address
\* exactly when it has a null tag, and the tag of an occupied block is the
\* tag of its address under the visualizer's current mapping type.
C26_TagMatchesAddress ==
    /\ tagsConsistent(mappingType, cache)
    /\ \A s \in Sides : tagsConsistent(sideMappingType(s), visualizers[s].cache)

\* three addresses resident under fully-associative mapping, chosen after
\* the initial direct mapping; 520 carries the tag 16
C26_Witness ==
    /\ mappingType = "fully-associative"
    /\ Cardinality(occupied(cache)) >= 3
    /\ \E i \in DOMAIN cache : cache[i].address = 520 /\ cache[i].tag = 16

\* ------------------------------------------------------------------------
\* two recorded accesses went to the same location: the same block (direct),
\* the same set (set-associative), any block (fully associative)
sameLocation(g, h) == mappingType = "fully-associative" \/ g.index = h.index

addressesOf(h) == {h[i].address : i \in 1..Len(h)}

\* C28: after every step, addressesEverSeen of a visualizer with no access
\* pending is the set of the addresses in its history; and the first-time
\* test of an accepted miss reads the set as it was before the address was
\* added: the miss of an address that was not in the set is classified
\* 'both' when its block is occupied and 'compulsory' otherwise, and the
\* address is in the set afterwards.
C28_SeenIsHistoryAddresses ==
    [][/\ ~Classified' => addressesEverSeen' = addressesOf(history')
       /\ \A s \in Sides :
            ~childClassified(visualizers'[s]) =>
                visualizers'[s].addressesEverSeen
                    = addressesOf(visualizers'[s].history)
       /\ (AcceptStep /\ Head(history').result = "miss"
             /\ Head(history').address \notin addressesEverSeen) =>
            /\ Head(history').missType =
                  (IF cache[pending'[1].finalIndex].address # NULL
                   THEN "both" ELSE "compulsory")
            /\ Head(history').address \in addressesEverSeen'
      ]_vars

\* five accesses of three addresses, one of them a hit and one a
\* first-time miss that replaced
C28_Witness ==
    /\ ~Classified
    /\ Len(history) = 5
    /\ Cardinality(addressesEverSeen) = 3
    /\ addressesEverSeen = addressesOf(history)
    /\ stats.hits >= 1
    /\ bothMisses(history) >= 1

\* ------------------------------------------------------------------------
\* the stats after the outcome of record rec has been counted once
statsWith(st, rec) ==
    [hits |-> st.hits + (IF rec.result = "hit" THEN 1 ELSE 0),
     compulsoryMisses |->
         st.compulsoryMisses
           + (IF rec.result = "miss" /\ rec.missType \in {"compulsory", "both"}
              THEN 1 ELSE 0),
     capacityMisses |->
         st.capacityMisses
           + (IF rec.result = "miss" /\ rec.missType \in {"capacity", "both"}
              THEN 1 ELSE 0)]

\* the history after is the history before, or the history before with one
\* record of the given address in front, or (only where a reset may run)
\* empty
historyStep(before, after, accepted, address, mayReset) ==
    IF accepted
    THEN /\ after # <<>>
         /\ Tail(after) = before
         /\ after[1].address = address
         /\ after[1].result \in {"hit", "miss"}
         /\ (after[1].result = "hit") <=> (after[1].missType = "none")
    ELSE after = before \/ (mayReset /\ after = <<>>)

\* newest record first
newestFirst(h) ==
    \A i, j \in 1..Len(h) : i < j => h[i].timestamp > h[j].timestamp

\* C29: every accepted address prepends exactly one record, of that
\* address, to history; no other step changes history except a reset, which
\* empties it, so history keeps all accesses since the last reset, newest
\* first; and the delayed update of an access adds to stats exactly the
\* outcome (hit, or miss with its miss type) that its record shows
\* (standalone visualizer and both children of the comparison).
C29_HistoryRecordsEveryAccess ==
    [][/\ historyStep(history, history', AcceptStep, animatingAddress', ~isAnimating)
       /\ newestFirst(history')
       /\ (pc = "targeted" /\ pc' = "updated") =>
             stats' = statsWith(stats, history[1])
       /\ \A s \in Sides :
             LET v == visualizers[s]
                 w == visualizers'[s]
             IN  /\ historyStep(v.history, w.history,
                                v.pc = "idle" /\ w.pc = "submitted",
                                w.animatingAddress, ~comparisonIsAnimating)
                 /\ newestFirst(w.history)
                 /\ (v.pc = "targeted" /\ w.pc = "updated") =>
                       w.stats = statsWith(v.stats, v.history[1])
      ]_vars

\* five records, the latest a counted 'capacity' miss, one of them a hit
C29_Witness ==
    /\ pc = "updated"
    /\ Len(history) = 5
    /\ history[1].missType = "capacity"
    /\ stats.capacityMisses = 2
    /\ \E i \in 2..5 : history[i].result = "hit"
    /\ newestFirst(history)

\* ------------------------------------------------------------------------
\* the access a visualizer has just accepted is a miss of an address that
\* was in seenBefore; then the block chosen for it, in the cache it was
\* classified on, is occupied, and the record says 'capacity'
seenMissReplaces(seenBefore, rec, job) ==
    (rec.result = "miss" /\ rec.address \in seenBefore) =>
        /\ job.cache[job.finalIndex].address # NULL
        /\ rec.missType = "capacity"

\* C30: whenever processAddress accepts an address that is already in
\* addressesEverSeen and misses, the block chosen for it is occupied
\* (willReplace is true), so the miss is 'capacity' and no record of a
\* previously seen address says 'compulsory' (standalone visualizer and both
\* children of the comparison).
C30_SeenMissAlwaysReplaces ==
    [][/\ AcceptStep =>
            seenMissReplaces(addressesEverSeen, history'[1], pending'[1])
       /\ \A i \in 1..Len(history') :
            (history'[i].result = "miss" /\ history'[i].missType = "compulsory")
               => \A j \in (i + 1)..Len(history') :
                     history'[j].address # history'[i].address
       /\ \A s \in Sides :
            LET v == visualizers[s]
                w == visualizers'[s]
            IN  (v.pc = "idle" /\ w.pc = "submitted") =>
                   seenMissReplaces(v.addressesEverSeen, w.history[1], w.pending[1])
      ]_vars

\* set-associative: an address seen before misses on its full set
C30_Witness ==
    /\ Classified
    /\ mappingType = "set-associative"
    /\ history[1].result = "miss"
    /\ \E j \in 2..Len(history) : history[j].address = history[1].address
    /\ history[1].missType = "capacity"
    /\ \A i \in 0..1 : cache[2 * history[1].index + i].address # NULL

\* ------------------------------------------------------------------------
\* the timestamp block i carries after an update exceeds every timestamp the
\* cache held before and the timestamp of every record of the history
stampedLater(before, after, i, h) ==
    /\ \A j \in DOMAIN before : after[i].timestamp > before[j].timestamp
    /\ \A k \in 1..Len(h) : after[i].timestamp > h[k].timestamp

\* no two occupied blocks carry the same timestamp
distinctStamps(cch) ==
    \A i, j \in occupied(cch) : i # j => cch[i].timestamp # cch[j].timestamp

\* C31: every hit and every install stamps its block with a timestamp
\* strictly greater than every timestamp stamped before it since the last
\* reset (those still in the cache, and the records of all accesses so far),
\* so no two occupied blocks of a visualizer hold equal timestamps and the
\* minimum that FIFO / LRU look for is unique (standalone visualizer and
\* both children of the comparison).
C31_StampsStrictlyIncrease ==
    [][/\ HitUpdateStep =>
            stampedLater(cache, cache', pending[1].cacheIndex, history)
       /\ MissUpdateStep =>
            stampedLater(cache, cache', pending[1].finalIndex, history)
       /\ distinctStamps(cache')
       /\ \A s \in Sides :
            LET v == visualizers[s]
                w == visualizers'[s]
            IN  /\ (v.pc = "targeted" /\ w.pc = "updated") =>
                      stampedLater(v.cache, w.cache,
                                   IF v.pending[1].cacheIndex # NotFound
                                   THEN v.pending[1].cacheIndex
                                   ELSE v.pending[1].finalIndex,
                                   v.history)
                /\ distinctStamps(w.cache)
      ]_vars

\* a full fully-associative cache under FIFO or LRU after a replacing
\* install, one block of which was refreshed by a hit
C31_Witness ==
    /\ pc = "updated"
    /\ mappingType = "fully-associative"
    /\ replacementPolicy \in {"fifo", "lru"}
    /\ occupied(cache) = DOMAIN cache
    /\ stats.capacityMisses >= 1
    /\ stats.hits >= 1
    /\ history[1].result = "miss"
    /\ distinctStamps(cache)
    /\ \A j \in DOMAIN cache :
          cache[j].timestamp <= cache[pending[1].finalIndex].timestamp

\* ------------------------------------------------------------------------
\* the addresses held by a main-memory window
windowAddresses(mem) == {mem[i] : i \in DOMAIN mem} \ {NULL}

\* the position in the history (1 = newest record) of the latest and of the
\* first record of an address
lastEntry(h, a) ==
    CHOOSE i \in 1..Len(h) :
        h[i].address = a /\ \A j \in 1..(i - 1) : h[j].address # a
firstEntry(h, a) ==
    CHOOSE i \in 1..Len(h) :
        h[i].address = a /\ \A j \in (i + 1)..Len(h) : h[j].address # a

\* the MAIN_MEMORY_SIZE distinct addresses entered most recently, counting
\* an address from its latest entry, or from its first entry
recentByLastEntry(h) ==
    {a \in addressesOf(h) :
        Cardinality({b \in addressesOf(h) : lastEntry(h, b) < lastEntry(h, a)})
            < MAIN_MEMORY_SIZE}
recentByFirstEntry(h) ==
    {a \in addressesOf(h) :
        Cardinality({b \in addressesOf(h) : firstEntry(h, b) < firstEntry(h, a)})
            < MAIN_MEMORY_SIZE}

\* C32: the main-memory window holds the MAIN_MEMORY_SIZE distinct
\* addresses entered most recently since the last reset (all of them while
\* there are fewer), whichever addresses the cache holds: a full window
\* gives up its oldest-entered address.
C32_WindowHoldsMostRecent ==
    \/ windowAddresses(mainMemory) = recentByLastEntry(history)
    \/ windowAddresses(mainMemory) = recentByFirstEntry(history)

\* ------------------------------------------------------------------------
\* the addresses held by the blocks of a cache
residents(cch) == {cch[i].address : i \in occupied(cch)}

\* C39: every address resident in the cache is in the main-memory window,
\* and the addresses a step takes out of the window (to make room in a full
\* window) are not resident in the cache.
C39_ResidentsStayInWindow ==
    [][/\ residents(cache') \subseteq windowAddresses(mainMemory')
       /\ (windowAddresses(mainMemory) \ windowAddresses(mainMemory'))
             \cap residents(cache) = {}
      ]_vars

\* direct mapping, a 33rd address was entered into the full window: address
\* 0, entered first, is resident and was kept, the second address entered is
\* not resident and was given up
C39_Witness ==
    /\ pc = "updated"
    /\ mappingType = "direct"
    /\ Cardinality(addressesEverSeen) = MAIN_MEMORY_SIZE + 1
    /\ Cardinality(windowAddresses(mainMemory)) = MAIN_MEMORY_SIZE
    /\ WindowAddr(1) \in residents(cache)
    /\ WindowAddr(1) \in windowAddresses(mainMemory)
    /\ WindowAddr(2) \notin windowAddresses(mainMemory)
    /\ history[1].address \in residents(cache) \cap windowAddresses(mainMemory)

\* ------------------------------------------------------------------------
\* no address in two blocks; a direct-mapped address in block a mod 8, a
\* set-associative one in one of the two blocks of set a mod 4
placedOnce(mt, cch) ==
    /\ \A i, j \in occupied(cch) : cch[i].address = cch[j].address => i = j
    /\ mt = "direct" =>
          \A i \in occupied(cch) : i = cch[i].address % CACHE_SIZE
    /\ mt = "set-associative" =>
          \A i \in occupied(cch) :
              i \in {2 * (cch[i].address % 4), 2 * (cch[i].address % 4) + 1}

occupiedPrefix(mt, cch) ==
    /\ mt = "fully-associative" =>
          \A i \in occupied(cch) : i = 0 \/ (i - 1) \in occupied(cch)
    /\ mt = "set-associative" =>
          \A i \in occupied(cch) :
              i % SET_SIZE = 0 \/ (i - 1) \in occupied(cch)

\* C34: under fully-associative mapping the occupied blocks form a prefix
\* 0..k-1 of the cache, under set-associative mapping the occupied blocks of
\* each set form a prefix of the set: no empty block has a lower index than
\* an occupied block of the same candidate range (standalone visualizer and
\* both children of the comparison).
C34_OccupiedBlocksFormPrefix ==
    /\ occupiedPrefix(mappingType, cache)
    /\ \A s \in Sides : occupiedPrefix(sideMappingType(s), visualizers[s].cache)

\* fully associative: five blocks filled, three still empty, after a hit
C34_Witness ==
    /\ mappingType = "fully-associative"
    /\ pc = "updated"
    /\ occupied(cache) = 0..4
    /\ stats.hits >= 1
    /\ history[1].result = "miss"

\* ------------------------------------------------------------------------
\* C35: whenever a visualizer has no access waiting for its delayed update,
\* its compulsoryMisses equals the number of distinct addresses accepted
\* since the last reset, the size of addressesEverSeen (standalone
\* visualizer and both children of the comparison).
C35_CompulsoryCountsDistinct ==
    /\ ~Classified => stats.compulsoryMisses = Cardinality(addressesEverSeen)
    /\ \A s \in Sides :
          ~childClassified(visualizers[s]) =>
              visualizers[s].stats.compulsoryMisses
                  = Cardinality(visualizers[s].addressesEverSeen)

\* an idle visualizer that saw four addresses in six accesses: a hit, a
\* 'capacity' miss of a seen address and a 'both' miss among them
C35_Witness ==
    /\ pc = "idle"
    /\ Len(history) = 6
    /\ Cardinality(addressesEverSeen) = 4
    /\ stats.compulsoryMisses = 4
    /\ stats.hits >= 1
    /\ bothMisses(history) >= 1
    /\ \E i \in 1..Len(history) : history[i].missType = "capacity"

\* ------------------------------------------------------------------------
\* the candidate ranges findReplacementIndex is called on: the whole cache
\* and each set
candidateRanges ==
    {<<0, CACHE_SIZE>>}
       \cup {<<k * SET_SIZE, (k + 1) * SET_SIZE>> :
                k \in 0..((CACHE_SIZE \div SET_SIZE) - 1)}

\* FIFO and LRU pick the same block of every candidate range of a cache
sameVictims(cch) ==
    \A range \in candidateRanges :
        findReplacementIndex("fifo", cch, range[1], range[2], 0)
            = findReplacementIndex("lru", cch, range[1], range[2], 0)

undisturbed(phase, phase2, locked, job, cch, cch2, h, h2, st, st2, cfg, cfg2) ==
    /\ phase # "idle" => (locked /\ Len(job) = 1 /\ cfg2 = cfg)
    /\ h2 # h => ((phase = "idle" /\ job = <<>>) \/ h2 = <<>>)
    /\ (h2 = <<>> /\ h # <<>>) => phase = "idle"
    /\ phase \in {"submitted", "targeted"} =>
          /\ h2 = h
          /\ job[1].cache = cch
          /\ \/ (cch2 = cch /\ st2 = st /\ phase2 \in {"submitted", "targeted"})
             \/ (phase = "targeted" /\ phase2 = "updated")

\* C37: between the acceptance of an address and the delayed update it
\* schedules no other address is accepted and no reset or configuration
\* change reaches that visualizer, on the home page (own isAnimating) and on
\* the comparison page (the parent's isAnimating, which outlasts both
\* children's timers); at most one update is pending per visualizer, and it
\* is applied to the cache its access was classified on.
C37_NoInterferenceWhilePending ==
    [][/\ undisturbed(pc, pc', isAnimating, pending, cache, cache',
                      history, history', stats, stats', config, config')
       /\ \A s \in Sides :
            LET v == visualizers[s]
                w == visualizers'[s]
            IN  undisturbed(v.pc, w.pc, comparisonIsAnimating /\ v.isAnimating,
                            v.pending, v.cache, w.cache, v.history, w.history,
                            v.stats, w.stats,
                            <<sideMappingType(s), sideReplacementPolicy(s)>>,
                            <<sideMappingType(s)', sideReplacementPolicy(s)'>>)
      ]_vars

\* the comparison page 1000 ms after a submit: the right child has applied
\* its hit, the left child's miss still waits for its 1500 ms timer
C37_Witness ==
    LET l == visualizers["left"]
        r == visualizers["right"]
    IN  /\ page = "compare"
        /\ comparisonIsAnimating
        /\ l.pc = "targeted"
        /\ l.pending[1].cacheIndex = NotFound
        /\ l.pending[1].cache = l.cache
        /\ r.pc = "updated"
        /\ r.history[1].result = "hit"
        /\ r.stats.hits = 1

\* ------------------------------------------------------------------------
\* the latest access of a visualizer has been applied: its update has run
\* and stats counts every record of the history
applied(phase, st, h) ==
    /\ phase \in {"updated", "idle"}
    /\ countedAccesses(st, h) = Len(h)

\* C38: provided scheduled timers fire, every accepted address has its hit
\* or miss update applied to cache and stats, and every visualizer that is
\* animating returns to isAnimating = false (on the comparison page the
\* parent's flag and both children's), so that a further address or a reset
\* can be accepted.
C38_EveryAccessCompletes ==
    /\ Classified ~> applied(pc, stats, history)
    /\ isAnimating ~> (~isAnimating /\ pc = "idle")
    /\ \A s \in Sides :
          childClassified(visualizers[s])
             ~> applied(visualizers[s].pc, visualizers[s].stats,
                        visualizers[s].history)
    /\ comparisonIsAnimating
          ~> (/\ ~comparisonIsAnimating
              /\ \A s \in Sides :
                    ~visualizers[s].isAnimating /\ visualizers[s].pc = "idle")

\* three accesses were applied (a hit among them) and the form is open again
C38_Witness ==
    /\ page = "home"
    /\ pc = "idle"
    /\ ~isAnimating
    /\ pending = <<>>
    /\ Len(history) = 3
    /\ countedAccesses(stats, history) = 3
    /\ stats.hits >= 1
    /\ history[1].address \in residents(cache)

\* ------------------------------------------------------------------------
\* once the 100 ms timer of a miss has run, the published target is the
\* block the delayed update installs into
targetIsInstall(phase, job, target) ==
    (phase \in {"targeted", "updated"} /\ job[1].cacheIndex = NotFound)
        => target = job[1].finalIndex

\* C40: for every miss the block index published as the animation target
\* (targetCacheIndex as set again by the 100 ms timer) is the block index at
\* which handleCacheMiss installs the address, under every mapping type and
\* every replacement policy (standalone visualizer and both children of the
\* comparison).
C40_TargetIsInstallIndex ==
    /\ targetIsInstall(pc, pending, targetCacheIndex)
    /\ \A s \in Sides :
          targetIsInstall(visualizers[s].pc, visualizers[s].pending,
                          visualizers[s].targetCacheIndex)

====
